---- MODULE Spec2Model ----
(***************************************************************************)
(* TMS-Backend: the distance matrix cache (src/core/matrix_manager.py)     *)
(* and the route optimisation run (src/core/optimize_routes.py).           *)
(*                                                                         *)
(* Distances and times are floats in the program.  Here they are integers  *)
(* counted in 1/Scale of a unit (km or minute), so that int(x), the        *)
(* truncation the solver callbacks apply, is x \div Scale.                 *)
(*                                                                         *)
(* Spec is the cache with its clients: shops created and moved, the        *)
(* refresh process_pending_updates, one pending shop per step, and         *)
(* get_distance.  OptSpec is one optimisation run, from the request to the *)
(* job COMPLETED, over a complete cache, in distance mode and without geo  *)
(* constraints.                                                            *)
(***************************************************************************)
EXTENDS Integers, Sequences, FiniteSets, Bags, TLC

\* ---------------------------------------------------------------- bounds
\* shops (the depot is one of them) known to the matrix cache
MaxShops == 2
\* number of coordinate changes (shops_curd.update with gps_changed) in a run
MaxUpdates == 1
\* provider readings are 1..MaxReading (same resolution as the cache)
MaxReading == 1
\* orders and vehicles of an optimisation run, shops the orders deliver to
MaxOrders == 2
MaxVehicles == 2
MaxOrderShops == 2
\* resolution of the distances: one km is Scale units
Scale == 2

Shops == 1..MaxShops
OrderIds == 1..MaxOrders
VehicleIds == 1..MaxVehicles

\* Python's None for a missing distance or time (never a stored value >= 0)
None == -1

\* ------------------------------------------------------------- variables
VARIABLES
  matrix_status,    \* GPSMaster.matrix_status per shop id; "absent" = no row yet
  shop_matrix,      \* committed rows of table shop_matrix (MatrixMaster), a bag
  pc,               \* position of process_pending_updates: "idle" | "loop"
  pending_shop_ids, \* the list built at matrix_manager.py:83
  pos,              \* index in pending_shop_ids of the next shop of the loop
  calls,            \* (source, target) pairs sent to the provider so far by
                    \* the refresh run in progress, or by the last one
  last,             \* the handler or step that ran last, with what it did
  updates,          \* number of coordinate changes so far
  run_ok,           \* the refresh in progress met no failure and no change
  settled,          \* a refresh ended with run_ok and nothing changed since
  failed            \* shops whose iteration was rolled back in the refresh
                    \* in progress, or in the last one

mvars == <<matrix_status, shop_matrix, pc, pending_shop_ids, pos, calls, last,
           updates, run_ok, settled, failed>>

VARIABLES
  order_info,         \* table orders: shop_id, priority, group of each order
  order_status,       \* Order.status of each order
  vehicle_constraint, \* VehicleConstrain row of each vehicle
  route_shops,        \* PredefinedRoute.shops (shop ids) of each predefined route
  geo_constraint,     \* table geo_constraints: start_shop_id, end_shop_id, vehicle_id
  request,            \* the request dict handed to run_optimization_task
  jobs,               \* table jobs with the routes saved under each job
  task,               \* run_optimization_task: its position and its locals
  solves              \* the calls of _run_ortools_solver so far, with whether
                      \* each one returned a solution

ovars == <<order_info, order_status, vehicle_constraint, route_shops,
           geo_constraint, request, jobs, task, solves>>

VARIABLES
  coords,             \* GPSMaster.latitude/longitude of each shop, as the number of
                      \* changes they went through
  it                  \* the iteration of process_pending_updates in progress:
                      \* the rows it loaded, the worker tasks in flight, the
                      \* results collected, the session

fvars == <<coords, it>>

VARIABLES
  order_job_id        \* Order.job_id of each order

jvars == <<order_job_id>>

VARIABLES
  other_task          \* the locals of a second run_optimization_task, the one
                      \* of the two background tasks that is not running now

tvars == <<other_task>>

vars == <<mvars, ovars, fvars, jvars, tvars>>

\* ------------------------------------------------------------- the table
Row(s1, s2, d, t) ==
  [shop_id_1 |-> s1, shop_id_2 |-> s2, distance_km |-> d, time_minutes |-> t]

\* rows of bag T whose key columns are (s1, s2)
RowsFor(T, s1, s2) ==
  {r \in BagToSet(T) : r.shop_id_1 = s1 /\ r.shop_id_2 = s2}

\* Query(...).first(): some row of the result, the same one for the same query
First(T, s1, s2) == CHOOSE r \in RowsFor(T, s1, s2) : TRUE

Min(a, b) == IF a <= b THEN a ELSE b
Max(a, b) == IF a >= b THEN a ELSE b

\* number of rows stored for the unordered pair {a, b}, in either order
CopiesOfPair(T, a, b) ==
  LET rs == {r \in BagToSet(T) : {r.shop_id_1, r.shop_id_2} = {a, b}}
      F[S \in SUBSET rs] ==
        IF S = {} THEN 0
        ELSE LET r == CHOOSE x \in S : TRUE IN CopiesIn(r, T) + F[S \ {r}]
  IN F[rs]

\* ----------------------------------------------------------- the provider
\* get_osrm_data: a reading, (None, None, None) on a non-200 or empty answer,
\* or an exception of requests.get
Non200 == [kind |-> "non200"]
Raised == [kind |-> "raised"]
OsrmOk == {[kind |-> "ok", distance_km |-> d, time_minutes |-> MaxReading + 1 - d] :
             d \in 1..MaxReading}
Outcomes == OsrmOk \cup {Non200, Raised}

\* _calculate_single_distance: the result dict, or None when the call raised
\* (then _calculate_distances_threaded drops it: "if result:")
_calculate_single_distance(shop1, shop2, outcome) ==
  [shop_id_1 |-> shop1, shop_id_2 |-> shop2,
   distance_km |-> IF outcome.kind = "ok" THEN outcome.distance_km ELSE None,
   time_minutes |-> IF outcome.kind = "ok" THEN outcome.time_minutes ELSE None]

\* get_osrm_data as a function of the two coordinates it is given: the road
\* network answers the same question the same way
Osrm(c1, c2) ==
  [kind |-> "ok", distance_km |-> 1 + c1 + c2, time_minutes |-> 2 * (1 + c1 + c2)]

\* ------------------------------------------------------------ the session
\* The SQLAlchemy session between two commits (autoflush=False): rows added
\* and not yet flushed, and attribute changes of loaded rows.  Queries see
\* the committed table only.
EmptySession == [adds |-> EmptyBag, upds |-> {}]

\* a save that keeps the ids in the order of the result dict (no min/max)
_save_distance_to_db_raw(T, sess, data) ==
  LET sid1 == data.shop_id_1
      sid2 == data.shop_id_2
  IN IF data.distance_km = None THEN EmptySession
     ELSE IF RowsFor(T, sid1, sid2) # {}
          THEN [sess EXCEPT !.upds =
                  {u \in @ : ~(u.shop_id_1 = sid1 /\ u.shop_id_2 = sid2)}
                  \cup {Row(sid1, sid2, data.distance_km, data.time_minutes)}]
          ELSE [sess EXCEPT !.adds =
                  @ (+) SetToBag({Row(sid1, sid2, data.distance_km, data.time_minutes)})]

\* _save_distance_to_db.  A result dict of a failed provider call holds None:
\* coords[::-1] or the ":.2f" of the log line raises TypeError, and the
\* handler rolls the session back, which discards everything pending.
_save_distance_to_db(T, sess, data) ==
  LET sid1 == Min(data.shop_id_1, data.shop_id_2)
      sid2 == Max(data.shop_id_1, data.shop_id_2)
  IN IF data.distance_km = None THEN EmptySession
     ELSE IF RowsFor(T, sid1, sid2) # {}
          THEN [sess EXCEPT !.upds =
                  {u \in @ : ~(u.shop_id_1 = sid1 /\ u.shop_id_2 = sid2)}
                  \cup {Row(sid1, sid2, data.distance_km, data.time_minutes)}]
          ELSE [sess EXCEPT !.adds =
                  @ (+) SetToBag({Row(sid1, sid2, data.distance_km, data.time_minutes)})]

\* the loop "for result in distance_results: self._save_distance_to_db(result)"
RECURSIVE SaveAll(_, _, _)
SaveAll(T, sess, results) ==
  IF results = <<>> THEN sess
  ELSE SaveAll(T, _save_distance_to_db(T, sess, Head(results)), Tail(results))

\* no iteration of the loop in progress
NoIteration ==
  [phase |-> "none", source |-> None, source_coord |-> None, loaded |-> <<>>,
   inflight |-> {}, results |-> <<>>, sess |-> EmptySession, passes |-> 0,
   raced |-> FALSE]

\* db.commit(): flush the pending rows and attribute changes
Commit(T, sess) ==
  LET olds == {First(T, u.shop_id_1, u.shop_id_2) : u \in sess.upds}
  IN ((T (-) SetToBag(olds)) (+) SetToBag(sess.upds)) (+) sess.adds

\* _delete_shop_distances for every shop of the set
_delete_shop_distances(T, shop_ids) ==
  LET gone == {r \in BagToSet(T) : r.shop_id_1 \in shop_ids \/ r.shop_id_2 \in shop_ids}
      keep == BagToSet(T) \ gone
  IN [r \in keep |-> T[r]]

\* ---------------------------------------------------------- get_distance
NotFound == <<None, None>>

\* a lookup with the ids in the order given (no min/max)
get_distance_nocanon(T, shop_id_1, shop_id_2) ==
  IF shop_id_1 = shop_id_2 THEN <<0, 0>>
  ELSE IF RowsFor(T, shop_id_1, shop_id_2) # {}
       THEN <<First(T, shop_id_1, shop_id_2).distance_km,
              First(T, shop_id_1, shop_id_2).time_minutes>>
       ELSE NotFound

get_distance(T, shop_id_1, shop_id_2) ==
  IF shop_id_1 = shop_id_2 THEN <<0, 0>>
  ELSE LET sid1 == Min(shop_id_1, shop_id_2)
           sid2 == Max(shop_id_1, shop_id_2)
       IN IF RowsFor(T, sid1, sid2) # {}
          THEN <<First(T, sid1, sid2).distance_km, First(T, sid1, sid2).time_minutes>>
          ELSE NotFound

\* a get_distance that asks the provider and stores the row when it finds none
GetDistanceCall_lazy(a, b) ==
  LET hit == get_distance(shop_matrix, a, b) # NotFound
      d == CHOOSE o \in OsrmOk : TRUE
  IN /\ shop_matrix' = IF hit THEN shop_matrix
                       ELSE shop_matrix (+) SetToBag({Row(Min(a, b), Max(a, b),
                                                         d.distance_km, d.time_minutes)})
     /\ last' = [op |-> "get", shop_id_1 |-> a, shop_id_2 |-> b,
                 miss |-> ~hit,
                 osrm |-> IF hit THEN {} ELSE {<<a, b>>},
                 result |-> get_distance(shop_matrix', a, b)]
     /\ UNCHANGED <<matrix_status, pc, pending_shop_ids, pos, calls, updates,
                    run_ok, settled, failed>>
     /\ UNCHANGED <<ovars, fvars, jvars, tvars>>

\* the call get_distance(a, b) of a client, at any moment
GetDistanceCall(a, b) ==
  /\ last' = [op |-> "get", shop_id_1 |-> a, shop_id_2 |-> b,
              miss |-> get_distance(shop_matrix, a, b) = NotFound,
              osrm |-> {},
              result |-> get_distance(shop_matrix, a, b)]
  /\ UNCHANGED <<matrix_status, shop_matrix, pc, pending_shop_ids, pos, calls,
                 updates, run_ok, settled, failed>>
  /\ UNCHANGED <<ovars, fvars, jvars, tvars>>

\* ------------------------------------------------------ shops_curd.py
\* create: a new row with the next id and matrix_status 'to_create'
create ==
  /\ \E id \in Shops :
       /\ matrix_status[id] = "absent"
       /\ \A j \in Shops : j < id => matrix_status[j] # "absent"
       /\ matrix_status' = [matrix_status EXCEPT ![id] = "to_create"]
       /\ last' = [op |-> "create", id |-> id]
  /\ run_ok' = FALSE
  /\ settled' = FALSE
  /\ UNCHANGED <<shop_matrix, pc, pending_shop_ids, pos, calls, updates, failed>>
  /\ UNCHANGED <<ovars, fvars, jvars, tvars>>

\* update with gps_changed: the coordinates change, matrix_status 'to_update'
update ==
  /\ updates < MaxUpdates
  /\ \E id \in Shops :
       /\ matrix_status[id] # "absent"
       /\ matrix_status' = [matrix_status EXCEPT ![id] = "to_update"]
       /\ last' = [op |-> "update", id |-> id]
  /\ updates' = updates + 1
  /\ run_ok' = FALSE
  /\ settled' = FALSE
  /\ UNCHANGED <<shop_matrix, pc, pending_shop_ids, pos, calls, failed>>
  /\ UNCHANGED <<ovars, fvars, jvars, tvars>>

\* ------------------------------------------- process_pending_updates
RECURSIVE SortedSeq(_)
SortedSeq(S) ==
  IF S = {} THEN <<>>
  ELSE LET m == CHOOSE x \in S : \A y \in S : x <= y
       IN <<m>> \o SortedSeq(S \ {m})

\* the orders in which as_completed can hand back the futures of S
Perms(S) ==
  {s \in [1..Cardinality(S) -> S] :
     \A i, j \in 1..Cardinality(S) : i # j => s[i] # s[j]}

PendingShops ==
  {s \in DOMAIN matrix_status : matrix_status[s] \in {"to_update", "to_create"}}

\* lines 54-61: nothing pending, return 0
process_pending_updates_none ==
  /\ pc = "idle"
  /\ PendingShops = {}
  /\ last' = [op |-> "refresh_none"]
  /\ calls' = {}
  /\ UNCHANGED <<matrix_status, shop_matrix, pc, pending_shop_ids, pos, updates,
                 run_ok, settled, failed>>
  /\ UNCHANGED <<ovars, fvars, jvars, tvars>>

\* lines 54-84: the pending list (rows come in primary key order), the old
\* rows of every 'to_update' shop deleted and committed
process_pending_updates_begin ==
  /\ pc = "idle"
  /\ PendingShops # {}
  /\ shop_matrix' = _delete_shop_distances(shop_matrix,
                       {s \in DOMAIN matrix_status : matrix_status[s] = "to_update"})
  /\ pending_shop_ids' = SortedSeq(PendingShops)
  /\ pos' = 1
  /\ pc' = "loop"
  /\ calls' = {}
  /\ last' = [op |-> "refresh_begin"]
  /\ run_ok' = TRUE
  /\ settled' = FALSE
  /\ failed' = {}
  /\ UNCHANGED <<matrix_status, updates>>
  /\ UNCHANGED <<ovars, fvars, jvars, tvars>>

\* an iteration that leaves the status as it is
MarkUpdated_skip(status, shop_id) == status

\* line 124: pending_shop.matrix_status = 'updated'
MarkUpdated(status, shop_id) == [status EXCEPT ![shop_id] = "updated"]

\* an iteration whose failed commit leaves its rows and its status in place
CommitShop_norollback(fault, T, sess, status, shop_id) ==
  IF fault = "query_error" THEN [table |-> T, status |-> status]
  ELSE [table |-> Commit(T, sess), status |-> MarkUpdated(status, shop_id)]

\* lines 123-153: the status change and the single commit of the iteration;
\* on a failed commit, or an exception before it, the rollback
CommitShop(fault, T, sess, status, shop_id) ==
  IF fault = "none"
  THEN [table |-> Commit(T, sess), status |-> MarkUpdated(status, shop_id)]
  ELSE [table |-> T, status |-> status]

Faults == {"none", "query_error", "commit_error"}

\* lines 86-153: one iteration of the loop over pending_shop_ids
process_shop ==
  /\ pc = "loop"
  /\ LET shop_id == pending_shop_ids[pos]
         existing_shops == {s \in Shops : matrix_status[s] = "updated"}
         other_pending ==
           {s \in Shops : /\ \E i \in 1..Len(pending_shop_ids) : pending_shop_ids[i] = s
                          /\ s > shop_id
                          /\ matrix_status[s] # "absent"}
     IN \E fault \in Faults :
        \E out1 \in [existing_shops -> Outcomes], out2 \in [other_pending -> Outcomes] :
        \E ord1 \in Perms({t \in existing_shops : out1[t].kind # "raised"}),
           ord2 \in Perms({t \in other_pending : out2[t].kind # "raised"}) :
          LET asked == IF fault = "query_error" THEN {}
                       ELSE existing_shops \cup other_pending
              res1 == [i \in 1..Len(ord1) |->
                         _calculate_single_distance(shop_id, ord1[i], out1[ord1[i]])]
              res2 == [i \in 1..Len(ord2) |->
                         _calculate_single_distance(shop_id, ord2[i], out2[ord2[i]])]
              sess == SaveAll(shop_matrix, SaveAll(shop_matrix, EmptySession, res1), res2)
              done == CommitShop(fault, shop_matrix, sess, matrix_status, shop_id)
              clean == /\ fault = "none"
                       /\ \A t \in existing_shops : out1[t].kind = "ok"
                       /\ \A t \in other_pending : out2[t].kind = "ok"
          IN /\ (fault = "query_error" =>
                   /\ out1 = [t \in existing_shops |-> Raised]
                   /\ out2 = [t \in other_pending |-> Raised])
             /\ shop_matrix' = done.table
             /\ matrix_status' = done.status
             /\ calls' = calls \cup {<<shop_id, t>> : t \in asked}
             /\ last' = [op |-> "shop", shop_id |-> shop_id, fault |-> fault,
                         before |-> shop_matrix,
                         status_before |-> matrix_status[shop_id],
                         out |-> [t \in asked |->
                                    IF t \in existing_shops THEN out1[t] ELSE out2[t]]]
             /\ run_ok' = (run_ok /\ clean)
             /\ failed' = IF fault = "none" THEN failed ELSE failed \cup {shop_id}
             /\ IF pos = Len(pending_shop_ids)
                THEN /\ pc' = "idle"
                     /\ settled' = (run_ok /\ clean)
                ELSE /\ pc' = "loop"
                     /\ settled' = FALSE
             /\ pos' = pos + 1
  /\ UNCHANGED <<pending_shop_ids, updates>>
  /\ UNCHANGED <<ovars, fvars, jvars, tvars>>

MInit ==
  /\ matrix_status = [s \in Shops |-> "absent"]
  /\ shop_matrix = EmptyBag
  /\ pc = "idle"
  /\ pending_shop_ids = <<>>
  /\ pos = 1
  /\ calls = {}
  /\ last = [op |-> "init"]
  /\ updates = 0
  /\ run_ok = FALSE
  /\ settled = FALSE
  /\ failed = {}
  /\ coords = <<>>
  /\ it = NoIteration
  \* no order, no vehicle, no job: the optimiser is not used
  /\ order_info = <<>>
  /\ order_status = <<>>
  /\ vehicle_constraint = <<>>
  /\ route_shops = <<>>
  /\ geo_constraint = {}
  /\ request = [caller |-> "none"]
  /\ jobs = <<>>
  /\ task = [pc |-> "idle"]
  /\ solves = <<>>
  /\ order_job_id = [o \in DOMAIN order_info |-> None]
  /\ other_task = [pc |-> "idle"]

MNext ==
  \/ create
  \/ update
  \/ process_pending_updates_none
  \/ process_pending_updates_begin
  \/ process_shop
  \/ \E a, b \in Shops : GetDistanceCall(a, b)

Spec == MInit /\ [][MNext]_vars

\* ===================================================== optimize_routes.py
\* the depot is shop 1: "all_nodes = [1] + shop_ids"
Depot == 1

Range(s) == {s[i] : i \in DOMAIN s}

\* ---------------------------------------------- matrix assembly (cache)
\* a dict that files the answer of get_distance under the key (shop_id_1,
\* shop_id_2) of the positions asked only
\* get_matrix_for_shops: the dict keyed by (shop_id_1, shop_id_2); a pair the
\* cache does not hold has no key.  The code asks get_distance once per pair
\* of positions i < j and files the answer under both orders of the key.
get_matrix_for_shops_oneway(T, shop_ids) ==
  LET found == {<<shop_ids[i], shop_ids[j]>> : i, j \in DOMAIN shop_ids}
      keys == {k \in found :
                 \/ k[1] = k[2]
                 \/ \E i, j \in DOMAIN shop_ids :
                      /\ i < j
                      /\ k = <<shop_ids[i], shop_ids[j]>>
                      /\ get_distance(T, k[1], k[2])[1] # None}
  IN [k \in keys |->
        [distance |-> get_distance(T, k[1], k[2])[1],
         time |-> get_distance(T, k[1], k[2])[2]]]

get_matrix_for_shops(T, shop_ids) ==
  LET ids == Range(shop_ids)
      keys == {k \in ids \X ids :
                 \/ k[1] = k[2]
                 \/ get_distance(T, k[1], k[2])[1] # None}
  IN [k \in keys |->
        [distance |-> get_distance(T, k[1], k[2])[1],
         time |-> get_distance(T, k[1], k[2])[2]]]

\* get_distance_matrix_as_array: matrix[i][j], 0.0 where the dict has no key
get_distance_matrix_as_array(T, shop_ids) ==
  LET distance_dict == get_matrix_for_shops(T, shop_ids)
  IN [i \in DOMAIN shop_ids |->
        [j \in DOMAIN shop_ids |->
           IF <<shop_ids[i], shop_ids[j]>> \in DOMAIN distance_dict
           THEN distance_dict[<<shop_ids[i], shop_ids[j]>>].distance
           ELSE 0]]

\* get_time_matrix_as_array: matrix[i][j], 0.0 where the dict has no key
get_time_matrix_as_array(T, shop_ids) ==
  LET distance_dict == get_matrix_for_shops(T, shop_ids)
  IN [i \in DOMAIN shop_ids |->
        [j \in DOMAIN shop_ids |->
           IF <<shop_ids[i], shop_ids[j]>> \in DOMAIN distance_dict
           THEN distance_dict[<<shop_ids[i], shop_ids[j]>>].time
           ELSE 0]]

\* ----------------------------------------------------------- time windows
\* a datetime.time, seconds left out, and the NULL of a Time column
Time(h, m) == [hour |-> h, minute |-> m]
NoTime == [null |-> TRUE]

\* _to_minutes of a datetime.time: minutes since midnight, None for None
_to_minutes(t) == IF t = NoTime THEN None ELSE t.hour * 60 + t.minute

\* the window every node has when no order gives one: (0, 1440)
FullDay == <<0, 1440>>

\* _build_time_windows: shop id -> (start, end) in minutes.  The dict is keyed
\* by shop id: of two orders of one shop the later of the list decides, and an
\* order of shop 1 replaces the window of the depot.
_build_time_windows(orders, use_tw) ==
  IF ~use_tw THEN None
  ELSE LET at(shop) == {i \in DOMAIN orders : order_info[orders[i]].shop_id = shop}
           lastOf(shop) == orders[CHOOSE i \in at(shop) : \A j \in at(shop) : j <= i]
           start(shop) == _to_minutes(order_info[lastOf(shop)].time_window_start)
           end(shop) == _to_minutes(order_info[lastOf(shop)].time_window_end)
           shops == {1} \cup {order_info[orders[i]].shop_id : i \in DOMAIN orders}
       IN [shop \in shops |->
             IF at(shop) = {} THEN FullDay
             ELSE IF start(shop) # None /\ end(shop) # None
                  THEN <<start(shop), end(shop)>>
                  ELSE FullDay]

\* ------------------------------------------------- groups and penalties
\* _fetch_order_groups: group id -> distinct shop ids of its orders, for the
\* groups with more than one distinct shop
_fetch_order_groups(orders) ==
  LET gids == UNION {order_info[o].group : o \in Range(orders)}
      shops(g) == {order_info[o].shop_id : o \in {x \in Range(orders) : g \in order_info[x].group}}
  IN [g \in {x \in gids : Cardinality(shops(x)) > 1} |-> shops(g)]

\* _build_penalties: the map is keyed by shop id, so of two orders of one
\* shop the later of the list decides
_build_penalties(orders, all_nodes) ==
  LET at(shop) == {i \in DOMAIN orders : order_info[orders[i]].shop_id = shop}
      lastOf(shop) == orders[CHOOSE i \in at(shop) : \A j \in at(shop) : j <= i]
      prio(shop) == order_info[lastOf(shop)].priority
      shop_priority_map(shop) ==
        IF prio(shop) = "HIGH" THEN 100000
        ELSE IF prio(shop) = "LOW" THEN 500
        ELSE 5000
  IN [k \in DOMAIN all_nodes |->
        IF all_nodes[k] = 1 THEN 0
        ELSE IF at(all_nodes[k]) # {} THEN shop_priority_map(all_nodes[k])
        ELSE 5000]

\* a data dict that takes the time matrix as soon as the flag is set or an
\* order has a window
BuildData_or(T, vehicles, orders, use_time_windows) ==
  LET shop_ids == [i \in DOMAIN orders |-> order_info[orders[i]].shop_id]
      all_nodes == <<Depot>> \o shop_ids
      has_time_windows ==
        \E i \in DOMAIN orders : /\ order_info[orders[i]].time_window_start # NoTime
                                  /\ order_info[orders[i]].time_window_end # NoTime
      use_time == use_time_windows \/ has_time_windows
  IN [matrix |-> IF use_time THEN get_time_matrix_as_array(T, all_nodes)
                 ELSE get_distance_matrix_as_array(T, all_nodes),
      node_mapping |-> all_nodes,
      num_vehicles |-> Len(vehicles),
      max_per_vehicle |->
        [i \in DOMAIN vehicles |-> vehicle_constraint[vehicles[i]].max_distance],
      max_visits_per_vehicle |->
        [i \in DOMAIN vehicles |-> vehicle_constraint[vehicles[i]].max_visits],
      penalties |-> _build_penalties(orders, all_nodes),
      time_windows |-> IF use_time THEN _build_time_windows(orders, TRUE)
                       ELSE None,
      use_time_matrix |-> use_time]

\* the data dict of _optimize_single_vehicle_route and _optimize_free_vehicles
\* (lines 272-307, 321-363).  Node k here is node k-1 of the code: node 1 is
\* the depot, node k+1 is the k-th order of the list.
BuildData(T, vehicles, orders, use_time_windows) ==
  LET shop_ids == [i \in DOMAIN orders |-> order_info[orders[i]].shop_id]
      all_nodes == <<Depot>> \o shop_ids
      has_time_windows ==
        \E i \in DOMAIN orders : /\ order_info[orders[i]].time_window_start # NoTime
                                  /\ order_info[orders[i]].time_window_end # NoTime
      use_time == use_time_windows /\ has_time_windows
  IN [matrix |-> IF use_time THEN get_time_matrix_as_array(T, all_nodes)
                 ELSE get_distance_matrix_as_array(T, all_nodes),
      node_mapping |-> all_nodes,
      num_vehicles |-> Len(vehicles),
      max_per_vehicle |->
        [i \in DOMAIN vehicles |-> vehicle_constraint[vehicles[i]].max_distance],
      max_visits_per_vehicle |->
        [i \in DOMAIN vehicles |-> vehicle_constraint[vehicles[i]].max_visits],
      penalties |-> _build_penalties(orders, all_nodes),
      time_windows |-> IF use_time THEN _build_time_windows(orders, use_time_windows)
                       ELSE None,
      use_time_matrix |-> use_time]

\* ------------------------------------------------------------ the solver
\* _fetch_geo_constraints: the rows with both shop ids, as dicts
_fetch_geo_constraints(rows) ==
  {[fromId |-> gc.start_shop_id, toId |-> gc.end_shop_id,
    restrictedVehicle |-> gc.vehicle_id] :
     gc \in {x \in rows : x.start_shop_id # None /\ x.end_shop_id # None}}

\* the cost of an arc that matches a geo constraint
Forbidden == 999999

\* a callback that matches a geo constraint in its stored direction only
transit_cb_directed(data, vehicles, geo_constraints, fn, tn) ==
  IF \E gc \in geo_constraints :
       /\ data.node_mapping[fn] = gc.fromId
       /\ data.node_mapping[tn] = gc.toId
       /\ gc.restrictedVehicle = None
  THEN Forbidden
  ELSE data.matrix[fn][tn] \div Scale

\* transit_cb: int(data["matrix"][fn][tn]), or 999999 when the shop ids of the
\* arc are those of a geo constraint, in either direction.  RoutingModel has
\* no method ActiveVehicle: the call raises, the handler of lines 424-425
\* leaves current_vehicle_id None, and a constraint restricted to a vehicle
\* matches no arc.
transit_cb(data, vehicles, geo_constraints, fn, tn) ==
  LET cost == data.matrix[fn][tn] \div Scale
      from_id == data.node_mapping[fn]
      to_id == data.node_mapping[tn]
      current_vehicle_id == None
  IN IF \E gc \in geo_constraints :
          /\ {from_id, to_id} = {gc.fromId, gc.toId}
          /\ \/ gc.restrictedVehicle = None
             \/ current_vehicle_id # None /\ gc.restrictedVehicle = current_vehicle_id
     THEN Forbidden
     ELSE cost

\* sum of f[p[i]][p[i+1]] along the list p
RECURSIVE PathSum(_, _)
PathSum(f, p) ==
  IF Len(p) < 2 THEN 0
  ELSE f[p[1]][p[2]] + PathSum(f, Tail(p))

\* the dimension's cumul at the end node of a vehicle whose stops are r
EndCumul(data, vehicles, geo_constraints, r) ==
  PathSum([fn \in DOMAIN data.matrix |->
             [tn \in DOMAIN data.matrix |->
                transit_cb(data, vehicles, geo_constraints, fn, tn)]],
          <<1>> \o r \o <<1>>)

\* max(...) of a list
MaxOf(s) == CHOOSE x \in Range(s) : \A y \in Range(s) : y <= x

\* lines 466-496, the Time dimension: its capacity is the largest
\* max_per_vehicle, its slack at most 30
Horizon(data) == MaxOf(data.max_per_vehicle)
Slack == 30

\* the range set on the cumul of a node: the window filed under its shop id
NodeRange(data, node) ==
  IF data.node_mapping[node] \in DOMAIN data.time_windows
  THEN data.time_windows[data.node_mapping[node]]
  ELSE <<0, Horizon(data)>>

\* the range of the start of vehicle v, from the time_window of its constraint
VehicleRange(data, vehicles, v) ==
  LET s_min == _to_minutes(vehicle_constraint[vehicles[v]].time_window[1])
      e_min == _to_minutes(vehicle_constraint[vehicles[v]].time_window[2])
  IN IF s_min # None /\ e_min # None
     THEN <<Max(0, s_min), Min(Horizon(data), e_min)>>
     ELSE <<0, data.max_per_vehicle[v]>>

\* SetRange and SetMax leave every cumul a value: a range that holds no value
\* of 0..horizon fails the model before the search, which then finds nothing
RangesHold(data, vehicles) ==
  /\ \A node \in 2..Len(data.node_mapping) :
       Max(0, NodeRange(data, node)[1]) <= Min(Horizon(data), NodeRange(data, node)[2])
  /\ \A v \in DOMAIN vehicles :
       VehicleRange(data, vehicles, v)[1] <= VehicleRange(data, vehicles, v)[2]

\* the values the Time cumuls can take along the stops r of vehicle v, from
\* the start of the vehicle to its end
Schedules(data, vehicles, geo_constraints, v, r) ==
  LET p == <<1>> \o r \o <<1>>
      n == Len(p)
      vr == VehicleRange(data, vehicles, v)
  IN {t \in [1..n -> 0..Horizon(data)] :
        /\ vr[1] <= t[1] /\ t[1] <= vr[2]
        /\ t[n] <= vr[2]
        /\ \A k \in 2..(n - 1) :
             NodeRange(data, p[k])[1] <= t[k] /\ t[k] <= NodeRange(data, p[k])[2]
        /\ \A k \in 1..(n - 1) :
             t[k + 1] - t[k] - transit_cb(data, vehicles, geo_constraints, p[k], p[k + 1])
               \in 0..Slack}

\* solution.Min(time_var) at each index of the route of vehicle v
MinCumul(data, vehicles, geo_constraints, v, r) ==
  LET S == Schedules(data, vehicles, geo_constraints, v, r)
  IN [k \in 1..(Len(r) + 2) |->
        CHOOSE x \in {t[k] : t \in S} : \A y \in {t[k] : t \in S} : x <= y]

\* the lists without repetition over the set S
Routes(S) == UNION {Perms(X) : X \in SUBSET S}

\* VehicleVar of a node: its vehicle, -1 for a node that is not visited
VehicleVar(rt, node) ==
  IF \E v \in DOMAIN rt : node \in Range(rt[v])
  THEN CHOOSE v \in DOMAIN rt : node \in Range(rt[v])
  ELSE -1

\* data["node_mapping"].index(shop_id): the first position
IndexOf(s, x) == CHOOSE i \in DOMAIN s : s[i] = x /\ \A j \in DOMAIN s : s[j] = x => i <= j

\* lines 504-521: the group constraints, only with more than one vehicle
GroupConstraints(data, order_groups, rt) ==
  (DOMAIN order_groups # {} /\ data.num_vehicles > 1) =>
    \A g \in DOMAIN order_groups :
      LET group_node_indices ==
            {IndexOf(data.node_mapping, shop_id) :
               shop_id \in {x \in order_groups[g] : x \in Range(data.node_mapping)}}
      IN \A a, b \in group_node_indices : VehicleVar(rt, a) = VehicleVar(rt, b)

\* what the routing model of lines 444-531 accepts: one list of stops per
\* vehicle, no node twice; VisitCount capped per vehicle at the end node; with
\* time windows (data["time_windows"] is a dict exactly when use_time_matrix
\* is set) the Time dimension, else Capacity capped per vehicle at the end
\* node; a node without disjunction (penalty >= 10000) visited
Feasible(data, vehicles, geo_constraints, order_groups, rt) ==
  /\ \A v, w \in DOMAIN rt : v # w => Range(rt[v]) \cap Range(rt[w]) = {}
  /\ \A v \in DOMAIN rt : Len(rt[v]) <= data.max_visits_per_vehicle[v]
  /\ IF data.use_time_matrix
     THEN /\ RangesHold(data, vehicles)
          /\ \A v \in DOMAIN rt :
               Schedules(data, vehicles, geo_constraints, v, rt[v]) # {}
     ELSE \A v \in DOMAIN rt :
            EndCumul(data, vehicles, geo_constraints, rt[v]) <= data.max_per_vehicle[v]
  /\ \A node \in 2..Len(data.node_mapping) :
       data.penalties[node] >= 10000 => \E v \in DOMAIN rt : node \in Range(rt[v])
  /\ GroupConstraints(data, order_groups, rt)

Solutions(data, vehicles, geo_constraints, order_groups) ==
  {rt \in [1..data.num_vehicles -> Routes(2..Len(data.node_mapping))] :
     Feasible(data, vehicles, geo_constraints, order_groups, rt)}

\* _extract_solution: per vehicle the shop ids from depot to depot, the
\* matrix values summed over the legs but the last and, with the Time
\* dimension, the least cumul at each index and the matrix values summed over
\* all the legs.  stops keeps the node of each stop.
_extract_solution(data, vehicles, geo_constraints, rt) ==
  [v \in DOMAIN rt |->
     [nodes |-> [i \in 1..(Len(rt[v]) + 2) |->
                   data.node_mapping[(<<1>> \o rt[v] \o <<1>>)[i]]],
      stops |-> rt[v],
      arrival_times |-> IF data.use_time_matrix
                        THEN MinCumul(data, vehicles, geo_constraints, v, rt[v])
                        ELSE None,
      total_distance |-> PathSum(data.matrix, <<1>> \o rt[v]),
      total_time |-> IF data.use_time_matrix
                     THEN PathSum(data.matrix, <<1>> \o rt[v] \o <<1>>)
                     ELSE None]]

\* _run_ortools_solver: the routes dict of some solution of the model (the
\* search is a heuristic under a time limit: any one), or the empty dict
\* when the model has none ("if not solution: return set(), {}")
_run_ortools_solver(data, vehicles, geo_constraints, order_groups) ==
  IF Solutions(data, vehicles, geo_constraints, order_groups) = {} THEN {<<>>}
  ELSE {_extract_solution(data, vehicles, geo_constraints, rt) :
          rt \in Solutions(data, vehicles, geo_constraints, order_groups)}

\* ------------------------------------------------------ the orchestrator
\* the order served at each stop of a route of the solver
Visits(orders, path) == [i \in DOMAIN path.stops |-> orders[path.stops[i] - 1]]

\* _optimize_single_vehicle_route, lines 309-317: the list holds the route,
\* or nothing when the function returns None
_optimize_single_vehicle_route(vehicle, orders, routes) ==
  IF routes # <<>>
  THEN <<[vehicle |-> vehicle, path |-> routes[1], orders |-> orders,
          visits |-> Visits(orders, routes[1])]>>
  ELSE <<>>

\* _optimize_free_vehicles, lines 365-373: one entry per vehicle of the routes
\* dict (its node list is never empty: it holds the depot twice)
_optimize_free_vehicles(vehicles, orders, routes) ==
  [i \in DOMAIN routes |->
     [vehicle |-> vehicles[i], path |-> routes[i],
      orders |-> SelectSeq(orders,
                   LAMBDA o : order_info[o].shop_id \in Range(routes[i].nodes)),
      visits |-> Visits(orders, routes[i])]]

\* _split_vehicles: <<vehicle, route id>> of the vehicles mapped to a route
\* that exists, and the other vehicles
\* a split that leaves out the vehicles bound to a route that has no row
_split_vehicles_drop(vehicles, vehicle_route_mapping) ==
  LET isFixed(v) == /\ v \in DOMAIN vehicle_route_mapping
                    /\ vehicle_route_mapping[v] \in DOMAIN route_shops
      fixedSeq == SelectSeq(vehicles, isFixed)
  IN [fixed |-> [i \in DOMAIN fixedSeq |-> <<fixedSeq[i], vehicle_route_mapping[fixedSeq[i]]>>],
      free |-> SelectSeq(vehicles, LAMBDA v : v \notin DOMAIN vehicle_route_mapping)]

_split_vehicles(vehicles, vehicle_route_mapping) ==
  LET isFixed(v) == /\ v \in DOMAIN vehicle_route_mapping
                    /\ vehicle_route_mapping[v] \in DOMAIN route_shops
      fixedSeq == SelectSeq(vehicles, isFixed)
  IN [fixed |-> [i \in DOMAIN fixedSeq |-> <<fixedSeq[i], vehicle_route_mapping[fixedSeq[i]]>>],
      free |-> SelectSeq(vehicles, LAMBDA v : ~isFixed(v))]

\* the answer of a request that is turned away: HTTPException(400, detail) of
\* the API, {"error": detail} of the sync helper
Rejected(detail) == [pc |-> "rejected", detail |-> detail]

\* api/routes/optimization_routes.py run_optimization and
\* routes/optimization_routes.py run_optimization_sync: the rows of the
\* selected vehicles and the PENDING rows of the selected orders, the request
\* turned away when a vehicle row is missing or no order is left, else the
\* placeholder job and the task started with the id of the placeholder (API)
\* or without a job id (sync helper)
run_optimization ==
  /\ task.pc = "idle"
  /\ LET vehicles == SortedSeq(request.selected_vehicles \cap VehicleIds)
         orders == SortedSeq({o \in request.selected_orders \cap OrderIds :
                                order_status[o] = "pending"})
     IN IF request.selected_vehicles = {}
        THEN /\ task' = Rejected("No vehicles provided in request")
             /\ jobs' = jobs
        ELSE IF Len(vehicles) # Cardinality(request.selected_vehicles)
        THEN /\ task' = Rejected("One or more vehicle IDs are invalid")
             /\ jobs' = jobs
        ELSE IF request.selected_orders = {}
        THEN /\ task' = Rejected("Provide selected_orders or order_group_id")
             /\ jobs' = jobs
        ELSE IF orders = <<>>
        THEN /\ task' = Rejected("No pending orders to optimize")
             /\ jobs' = jobs
        ELSE
        /\ jobs' = Append(jobs, [status |-> "planned", routes |-> <<>>])
        /\ task' = [pc |-> "queued",
                    job |-> IF request.caller = "api" THEN Len(jobs) + 1 ELSE None,
                    vehicles |-> vehicles, orders |-> orders,
                    order_groups |-> <<>>, geo_constraints |-> {},
                    fixed_vehicles |-> <<>>, free_vehicles |-> <<>>, i |-> 1,
                    remaining_orders |-> <<>>,
                    predefined_optimized_routes |-> <<>>,
                    free_optimized_routes |-> <<>>]
  /\ UNCHANGED <<order_info, order_status, vehicle_constraint, route_shops,
                 geo_constraint, request, solves>>
  /\ UNCHANGED <<mvars, fvars, jvars, tvars>>

\* run_optimization_task lines 145-162 and _optimize_with_predefined lines
\* 190-199: the job RUNNING, the groups, the split of the vehicles
run_optimization_task_begin ==
  /\ task.pc = "queued"
  /\ jobs' = IF task.job # None
             THEN [jobs EXCEPT ![task.job].status = "running"]
             ELSE jobs
  /\ LET split == _split_vehicles(task.vehicles, request.vehicle_route_mapping)
     IN task' = [task EXCEPT !.pc = "solve",
                             !.geo_constraints = _fetch_geo_constraints(geo_constraint),
                             !.order_groups = _fetch_order_groups(task.orders),
                             !.fixed_vehicles = split.fixed,
                             !.free_vehicles = split.free,
                             !.remaining_orders = task.orders]
  /\ UNCHANGED <<order_info, order_status, vehicle_constraint, route_shops,
                 geo_constraint, request, solves>>
  /\ UNCHANGED <<mvars, fvars, jvars, tvars>>

\* _optimize_with_predefined lines 201-216: one fixed vehicle
optimize_fixed ==
  /\ task.pc = "solve"
  /\ task.i <= Len(task.fixed_vehicles)
  /\ LET veh == task.fixed_vehicles[task.i][1]
         route == task.fixed_vehicles[task.i][2]
         route_orders == SelectSeq(task.orders,
                           LAMBDA o : order_info[o].shop_id \in route_shops[route])
         data == BuildData(shop_matrix, <<veh>>, route_orders, request.use_time_windows)
     IN \E routes \in IF route_orders # <<>>
                      THEN _run_ortools_solver(data, <<veh>>, task.geo_constraints,
                                               task.order_groups)
                      ELSE {<<>>} :
          /\ task' = [task EXCEPT
               !.predefined_optimized_routes =
                  @ \o _optimize_single_vehicle_route(veh, route_orders, routes),
               !.remaining_orders =
                  SelectSeq(@, LAMBDA o : o \notin Range(route_orders)),
               !.i = @ + 1]
          /\ solves' = IF route_orders # <<>>
                       THEN Append(solves, [vehicles |-> <<veh>>, orders |-> route_orders,
                                            solution |-> routes # <<>>,
                                            use_time_matrix |-> data.use_time_matrix,
                                            matrix |-> data.matrix,
                                            penalties |-> data.penalties])
                       ELSE solves
  /\ UNCHANGED <<order_info, order_status, vehicle_constraint, route_shops,
                 geo_constraint, request, jobs>>
  /\ UNCHANGED <<mvars, fvars, jvars, tvars>>

\* _optimize_with_predefined lines 218-228: the free vehicles
optimize_free ==
  /\ task.pc = "solve"
  /\ task.i > Len(task.fixed_vehicles)
  /\ LET called == task.free_vehicles # <<>> /\ task.remaining_orders # <<>>
         data == BuildData(shop_matrix, task.free_vehicles, task.remaining_orders,
                           request.use_time_windows)
     IN \E routes \in IF called
                      THEN _run_ortools_solver(data, task.free_vehicles,
                                               task.geo_constraints, task.order_groups)
                      ELSE {<<>>} :
          /\ task' = [task EXCEPT
               !.free_optimized_routes =
                  _optimize_free_vehicles(task.free_vehicles, task.remaining_orders,
                                          routes),
               !.pc = "save"]
          /\ solves' = IF called
                       THEN Append(solves, [vehicles |-> task.free_vehicles,
                                            orders |-> task.remaining_orders,
                                            solution |-> routes # <<>>,
                                            use_time_matrix |-> data.use_time_matrix,
                                            matrix |-> data.matrix,
                                            penalties |-> data.penalties])
                       ELSE solves
  /\ UNCHANGED <<order_info, order_status, vehicle_constraint, route_shops,
                 geo_constraint, request, jobs>>
  /\ UNCHANGED <<mvars, fvars, jvars, tvars>>

\* fixed_routes + optimized_routes of run_optimization_task
MergedResult == task.predefined_optimized_routes \o task.free_optimized_routes

\* a save that numbers the stops of a route from 1
_save_job_from1(job_rows, job, routes_data) ==
  LET saved == [i \in DOMAIN routes_data |->
                  [vehicle_id |-> routes_data[i].vehicle,
                   total_distance |-> routes_data[i].path.total_distance,
                   stops |-> {[shop_id |-> routes_data[i].path.nodes[k], sequence |-> k,
                               order_id |-> None] :
                                k \in DOMAIN routes_data[i].path.nodes}]]
  IN IF job # None
     THEN [job_rows EXCEPT ![job] = [status |-> "running", routes |-> saved]]
     ELSE Append(job_rows, [status |-> "running", routes |-> saved])

\* _save_job: a JobRoute per route with a JobStop row per node of its path,
\* numbered by enumerate from 0 and with no order_id, under the job of the
\* task, or under a new job when the task has none
_save_job(job_rows, job, routes_data) ==
  LET saved == [i \in DOMAIN routes_data |->
                  [vehicle_id |-> routes_data[i].vehicle,
                   total_distance |-> routes_data[i].path.total_distance,
                   stops |-> {[shop_id |-> routes_data[i].path.nodes[k],
                               sequence |-> k - 1, order_id |-> None] :
                                k \in DOMAIN routes_data[i].path.nodes}]]
  IN IF job # None
     THEN [job_rows EXCEPT ![job] = [status |-> "running", routes |-> saved]]
     ELSE Append(job_rows, [status |-> "running", routes |-> saved])

\* run_optimization_task lines 166-170
save_job ==
  /\ task.pc = "save"
  /\ jobs' = _save_job(jobs, task.job, MergedResult)
  /\ task' = [task EXCEPT !.pc = "mark",
                          !.job = IF task.job # None THEN task.job ELSE Len(jobs) + 1]
  /\ UNCHANGED <<order_info, order_status, vehicle_constraint, route_shops,
                 geo_constraint, request, solves>>
  /\ UNCHANGED <<mvars, fvars, jvars, tvars>>

\* run_optimization_task lines 172-175 and order_crud.mark_orders_active: the
\* orders listed with the routes go from PENDING to ACTIVE
mark_orders_active ==
  /\ task.pc = "mark"
  /\ LET order_ids == UNION {Range(MergedResult[i].orders) : i \in DOMAIN MergedResult}
     IN order_status' = [o \in DOMAIN order_status |->
                           IF o \in order_ids /\ order_status[o] = "pending"
                           THEN "active" ELSE order_status[o]]
  /\ task' = [task EXCEPT !.pc = "complete"]
  /\ UNCHANGED <<order_info, vehicle_constraint, route_shops, geo_constraint,
                 request, jobs, solves>>
  /\ UNCHANGED <<mvars, fvars, jvars, tvars>>

\* run_optimization_task lines 177-178
complete ==
  /\ task.pc = "complete"
  /\ jobs' = [jobs EXCEPT ![task.job].status = "completed"]
  /\ task' = [task EXCEPT !.pc = "done"]
  /\ UNCHANGED <<order_info, order_status, vehicle_constraint, route_shops,
                 geo_constraint, request, solves>>
  /\ UNCHANGED <<mvars, fvars, jvars, tvars>>

\* ------------------------------------------------ the runs of the model
\* VehicleConstrain.time_window, default "00:00-23:59", as its two times
DefaultTimeWindow == <<Time(0, 0), Time(23, 59)>>

Priorities == {"HIGH", "MEDIUM"}
GroupIds == {1}
RouteIds == {1}
OrderShops == 2..(MaxOrderShops + 1)
Locations == {Depot} \cup OrderShops

\* the cache complete, every pair with the same reading: 1 km, or 1 km and
\* one unit more
FullMatrix(d) ==
  SetToBag({Row(a, b, d, d) : <<a, b>> \in {p \in Locations \X Locations : p[1] < p[2]}})

\* the mappings vehicle id -> predefined route id a request can carry
Mappings == UNION {[D -> RouteIds] : D \in SUBSET VehicleIds}

OptInit ==
  /\ matrix_status = [s \in Locations |-> "updated"]
  /\ shop_matrix \in {FullMatrix(d) : d \in {Scale, Scale + 1}}
  /\ pc = "idle"
  /\ pending_shop_ids = <<>>
  /\ pos = 1
  /\ calls = {}
  /\ last = [op |-> "init"]
  /\ updates = 0
  /\ run_ok = FALSE
  /\ settled = FALSE
  /\ failed = {}
  /\ coords = <<>>
  /\ it = NoIteration
  /\ order_info \in [OrderIds -> [shop_id : OrderShops, priority : Priorities,
                                  group : SUBSET GroupIds,
                                  time_window_start : {NoTime},
                                  time_window_end : {NoTime}]]
  /\ order_status = [o \in OrderIds |-> "pending"]
  /\ vehicle_constraint \in [VehicleIds -> [max_distance : {1, MaxOrders + 1},
                                            max_visits : 1..MaxOrders,
                                            time_window : {DefaultTimeWindow}]]
  /\ route_shops \in [RouteIds -> (SUBSET OrderShops) \ {{}}]
  /\ geo_constraint = {}
  /\ request \in {[caller |-> "api", vehicle_route_mapping |-> <<>>,
                   use_time_windows |-> FALSE,
                   selected_vehicles |-> VehicleIds, selected_orders |-> OrderIds]}
                 \cup {[caller |-> "sync", vehicle_route_mapping |-> m,
                        use_time_windows |-> FALSE,
                   selected_vehicles |-> VehicleIds, selected_orders |-> OrderIds] : m \in Mappings}
  /\ jobs = <<>>
  /\ task = [pc |-> "idle"]
  /\ solves = <<>>
  /\ order_job_id = [o \in DOMAIN order_info |-> None]
  /\ other_task = [pc |-> "idle"]

ONext ==
  \/ run_optimization
  \/ run_optimization_task_begin
  \/ optimize_fixed
  \/ optimize_free
  \/ save_job
  \/ mark_orders_active
  \/ complete

OptSpec == OptInit /\ [][ONext]_vars

\* the lists of location ids a caller hands over: the depot and the shops of
\* up to MaxOrders orders, in any order, repeats included
IdLists == UNION {[1..n -> Locations] : n \in 0..(MaxOrders + 1)}

\* a caller of get_distance_matrix_as_array (_optimize_single_vehicle_route,
\* optimize_routes.py line 276); the call reads the cache only, so one call is followed
GetDistanceMatrix ==
  /\ pc = "idle"
  /\ last.op = "init"
  /\ \E shop_ids \in IdLists :
       last' = [op |-> "distance_matrix", shop_ids |-> shop_ids,
                matrix |-> get_distance_matrix_as_array(shop_matrix, shop_ids)]
  /\ UNCHANGED <<matrix_status, shop_matrix, pc, pending_shop_ids, pos, calls,
                 updates, run_ok, settled, failed>>
  /\ UNCHANGED <<ovars, fvars, jvars, tvars>>

\* a caller of get_time_matrix_as_array
GetTimeMatrix ==
  /\ pc = "idle"
  /\ last.op = "init"
  /\ \E shop_ids \in IdLists :
       last' = [op |-> "time_matrix", shop_ids |-> shop_ids,
                matrix |-> get_time_matrix_as_array(shop_matrix, shop_ids)]
  /\ UNCHANGED <<matrix_status, shop_matrix, pc, pending_shop_ids, pos, calls,
                 updates, run_ok, settled, failed>>
  /\ UNCHANGED <<ovars, fvars, jvars, tvars>>

\* the caches a refresh can leave: each pair of locations stored once, under
\* (smaller id, larger id), or not stored; every stored value its own
PartialMatrices ==
  LET pairs == {p \in Locations \X Locations : p[1] < p[2]}
  IN {SetToBag({Row(p[1], p[2], Scale * p[1] + p[2], 10 * (Scale * p[1] + p[2])) :
                  p \in P}) : P \in SUBSET pairs}

MatInit ==
  /\ matrix_status = [s \in Locations |-> "updated"]
  /\ shop_matrix \in PartialMatrices
  /\ pc = "idle"
  /\ pending_shop_ids = <<>>
  /\ pos = 1
  /\ calls = {}
  /\ last = [op |-> "init"]
  /\ updates = 0
  /\ run_ok = FALSE
  /\ settled = FALSE
  /\ failed = {}
  /\ coords = <<>>
  /\ it = NoIteration
  /\ order_info = [o \in OrderIds |->
                     [shop_id |-> 2, priority |-> "MEDIUM", group |-> {},
                      time_window_start |-> NoTime, time_window_end |-> NoTime]]
  /\ order_status = [o \in OrderIds |-> "pending"]
  /\ vehicle_constraint = [v \in VehicleIds |->
                             [max_distance |-> MaxOrders + 1, max_visits |-> MaxOrders,
                              time_window |-> DefaultTimeWindow]]
  /\ route_shops = [r \in RouteIds |-> OrderShops]
  /\ geo_constraint = {}
  /\ request = [caller |-> "none"]
  /\ jobs = <<>>
  /\ task = [pc |-> "none"]
  /\ solves = <<>>
  /\ order_job_id = [o \in DOMAIN order_info |-> None]
  /\ other_task = [pc |-> "idle"]

MatNext ==
  \/ GetDistanceMatrix
  \/ GetTimeMatrix

MatSpec == MatInit /\ [][MatNext]_vars

\* --------------------- process_pending_updates, one step of a thread at a time
\* shops_curd.update with gps_changed, in the session of the API: the new
\* coordinates and matrix_status 'to_update', committed
update_gps ==
  /\ updates < MaxUpdates
  /\ \E id \in DOMAIN matrix_status :
       /\ matrix_status[id] # "absent"
       /\ coords' = [coords EXCEPT ![id] = @ + 1]
       /\ matrix_status' = [matrix_status EXCEPT ![id] = "to_update"]
       /\ last' = [op |-> "update", id |-> id]
  /\ updates' = updates + 1
  /\ run_ok' = FALSE
  /\ settled' = FALSE
  /\ UNCHANGED <<shop_matrix, pc, pending_shop_ids, pos, calls, failed, it>>
  /\ UNCHANGED <<ovars, jvars, tvars>>

\* line 109-113: the rows of the pending ids larger than shop_id
OtherPending(shop_id) ==
  {s \in DOMAIN matrix_status :
     /\ \E i \in 1..Len(pending_shop_ids) : pending_shop_ids[i] = s
     /\ s > shop_id
     /\ matrix_status[s] # "absent"}

\* lines 184-193: the rows of the targets as loaded by the query just made,
\* one _calculate_single_distance submitted to the pool for each
Submit(iter, phase, targets) ==
  [iter EXCEPT !.phase = phase,
               !.loaded = [t \in targets |-> coords[t]],
               !.inflight = targets,
               !.results = <<>>]

\* lines 86-105 and 109-119 up to the first pool that gets a task: the row of
\* the pending shop loaded, the 'updated' rows loaded, the tasks submitted
iteration_begin ==
  /\ pc = "loop"
  /\ it.phase = "none"
  /\ LET shop_id == pending_shop_ids[pos]
         existing_shops == {s \in DOMAIN matrix_status : matrix_status[s] = "updated"}
         other_pending == OtherPending(shop_id)
         loaded == [NoIteration EXCEPT !.source = shop_id,
                                       !.source_coord = coords[shop_id]]
         targets == IF existing_shops # {} THEN existing_shops ELSE other_pending
     IN /\ it' = IF existing_shops # {} THEN Submit(loaded, "batch1", existing_shops)
                 ELSE IF other_pending # {} THEN Submit(loaded, "batch2", other_pending)
                 ELSE [loaded EXCEPT !.phase = "commit"]
        /\ calls' = calls \cup {<<shop_id, t>> : t \in targets}
        /\ last' = [op |-> "iteration", shop_id |-> shop_id]
  /\ UNCHANGED <<matrix_status, shop_matrix, pc, pending_shop_ids, pos, updates,
                 run_ok, settled, failed, coords>>
  /\ UNCHANGED <<ovars, jvars, tvars>>

\* a loop over as_completed that saves each result as it arrives
as_completed_step_pertask(T, sess, results, result) ==
  [sess |-> _save_distance_to_db(T, sess, result), results |-> results]

\* lines 196-201: the result of a finished future appended to distance_results
as_completed_step(T, sess, results, result) ==
  [sess |-> sess, results |-> Append(results, result)]

\* a worker ends its _calculate_single_distance, on the coordinates of the
\* rows it was handed, and as_completed yields its future
worker_done ==
  /\ it.phase \in {"batch1", "batch2"}
  /\ \E t \in it.inflight :
       LET result == _calculate_single_distance(it.source, t,
                        Osrm(it.source_coord, it.loaded[t]))
           got == as_completed_step(shop_matrix, it.sess, it.results, result)
           wrote == got.sess # it.sess
       IN /\ it' = [it EXCEPT !.inflight = @ \ {t},
                              !.results = got.results,
                              !.sess = got.sess,
                              !.passes = IF wrote THEN @ + 1 ELSE @,
                              !.raced = @ \/ (wrote /\ it.inflight \ {t} # {})]
          /\ last' = [op |-> "worker", shop_id |-> it.source, target |-> t]
  /\ UNCHANGED <<matrix_status, shop_matrix, pc, pending_shop_ids, pos, calls,
                 updates, run_ok, settled, failed, coords>>
  /\ UNCHANGED <<ovars, jvars, tvars>>

\* lines 205-209 once the pool is shut down, every future done: the save loop
\* over distance_results; then, after the pool of the 'updated' shops, lines
\* 109-119: the pool of the other pending shops, if there are any
save_batch ==
  /\ it.phase \in {"batch1", "batch2"}
  /\ it.inflight = {}
  /\ LET saved == [it EXCEPT !.sess = SaveAll(shop_matrix, it.sess, it.results),
                             !.passes = IF it.results # <<>> THEN @ + 1 ELSE @,
                             !.results = <<>>]
         other_pending == IF it.phase = "batch1" THEN OtherPending(it.source) ELSE {}
     IN /\ it' = IF other_pending # {} THEN Submit(saved, "batch2", other_pending)
                 ELSE [saved EXCEPT !.phase = "commit"]
        /\ calls' = calls \cup {<<it.source, t>> : t \in other_pending}
        /\ last' = [op |-> "save", shop_id |-> it.source, phase |-> it.phase]
  /\ UNCHANGED <<matrix_status, shop_matrix, pc, pending_shop_ids, pos, updates,
                 run_ok, settled, failed, coords>>
  /\ UNCHANGED <<ovars, jvars, tvars>>

\* lines 123-134: matrix_status 'updated' set on the row loaded at line 89,
\* and the single commit of the iteration
commit_shop ==
  /\ it.phase = "commit"
  /\ LET done == CommitShop("none", shop_matrix, it.sess, matrix_status, it.source)
     IN /\ shop_matrix' = done.table
        /\ matrix_status' = done.status
  /\ last' = [op |-> "commit", shop_id |-> it.source, passes |-> it.passes,
              before |-> shop_matrix]
  /\ it' = NoIteration
  /\ pos' = pos + 1
  /\ IF pos = Len(pending_shop_ids)
     THEN /\ pc' = "idle"
          /\ settled' = run_ok
     ELSE /\ pc' = "loop"
          /\ settled' = FALSE
  /\ UNCHANGED <<pending_shop_ids, calls, updates, run_ok, failed, coords>>
  /\ UNCHANGED <<ovars, jvars, tvars>>

\* three shops or more, each one in the matrix already or just created, the
\* rows of the pairs of 'updated' shops computed from their coordinates
RaceShops == 1..(MaxShops + 1)

RaceInit ==
  /\ matrix_status \in [RaceShops -> {"updated", "to_create"}]
  /\ shop_matrix =
       SetToBag({Row(p[1], p[2], Osrm(0, 0).distance_km, Osrm(0, 0).time_minutes) :
                   p \in {q \in RaceShops \X RaceShops :
                            /\ q[1] < q[2]
                            /\ matrix_status[q[1]] = "updated"
                            /\ matrix_status[q[2]] = "updated"}})
  /\ pc = "idle"
  /\ pending_shop_ids = <<>>
  /\ pos = 1
  /\ calls = {}
  /\ last = [op |-> "init"]
  /\ updates = 0
  /\ run_ok = FALSE
  /\ settled = FALSE
  /\ failed = {}
  /\ coords = [s \in RaceShops |-> 0]
  /\ it = NoIteration
  /\ order_info = <<>>
  /\ order_status = <<>>
  /\ vehicle_constraint = <<>>
  /\ route_shops = <<>>
  /\ geo_constraint = {}
  /\ request = [caller |-> "none"]
  /\ jobs = <<>>
  /\ task = [pc |-> "idle"]
  /\ solves = <<>>
  /\ order_job_id = [o \in DOMAIN order_info |-> None]
  /\ other_task = [pc |-> "idle"]

RaceNext ==
  \/ update_gps
  \/ process_pending_updates_none
  \/ process_pending_updates_begin
  \/ iteration_begin
  \/ worker_done
  \/ save_batch
  \/ commit_shop

RaceSpec == RaceInit /\ [][RaceNext]_vars

\* the cache complete, every leg Scale km and 1 minute
TimedMatrix ==
  SetToBag({Row(a, b, Scale, 1) :
              <<a, b>> \in {p \in Locations \X Locations : p[1] < p[2]}})

\* requests for vehicles 1 and 2 and orders 1 and 2, with the flag
\* use_time_windows set or not, over orders with or without a window that is
\* open all day, vehicle 1 free or bound to the predefined route of shop 2
SelInit ==
  /\ matrix_status = [s \in Locations |-> "updated"]
  /\ shop_matrix = TimedMatrix
  /\ pc = "idle"
  /\ pending_shop_ids = <<>>
  /\ pos = 1
  /\ calls = {}
  /\ last = [op |-> "init"]
  /\ updates = 0
  /\ run_ok = FALSE
  /\ settled = FALSE
  /\ failed = {}
  /\ coords = <<>>
  /\ it = NoIteration
  /\ order_info \in
       [OrderIds -> {[shop_id |-> sh, priority |-> "MEDIUM", group |-> {},
                      time_window_start |-> w[1], time_window_end |-> w[2]] :
                       sh \in {2, 3},
                       w \in {<<NoTime, NoTime>>, <<Time(0, 0), Time(23, 0)>>}}]
  /\ order_status = [o \in OrderIds |-> "pending"]
  /\ vehicle_constraint = [v \in VehicleIds |->
                             [max_distance |-> MaxOrders + 1,
                              max_visits |-> MaxOrders,
                              time_window |-> DefaultTimeWindow]]
  /\ route_shops = [r \in RouteIds |-> {2}]
  /\ geo_constraint = {}
  /\ request \in {r \in [caller : {"api", "sync"},
                          vehicle_route_mapping : {<<>>, <<1>>},
                          use_time_windows : BOOLEAN,
                          selected_vehicles : {{1, 2}},
                          selected_orders : {{1, 2}}] :
                     r.caller = "api" => r.vehicle_route_mapping = <<>>}
  /\ jobs = <<>>
  /\ task = [pc |-> "idle"]
  /\ solves = <<>>
  /\ order_job_id = [o \in DOMAIN order_info |-> None]
  /\ other_task = [pc |-> "idle"]

SelSpec == SelInit /\ [][ONext]_vars

\* ids no row has
UnknownVehicle == MaxVehicles + 1
UnknownOrder == MaxOrders + 1

\* requests that select any vehicle ids and order ids, ids without a row among
\* them, over orders that are pending or completed
ValInit ==
  /\ matrix_status = [s \in Locations |-> "updated"]
  /\ shop_matrix = FullMatrix(Scale)
  /\ pc = "idle"
  /\ pending_shop_ids = <<>>
  /\ pos = 1
  /\ calls = {}
  /\ last = [op |-> "init"]
  /\ updates = 0
  /\ run_ok = FALSE
  /\ settled = FALSE
  /\ failed = {}
  /\ coords = <<>>
  /\ it = NoIteration
  /\ order_info = [o \in OrderIds |->
                     [shop_id |-> 2, priority |-> "MEDIUM", group |-> {},
                      time_window_start |-> NoTime, time_window_end |-> NoTime]]
  /\ order_status \in [OrderIds -> {"pending", "completed"}]
  /\ vehicle_constraint = [v \in VehicleIds |->
                             [max_distance |-> MaxOrders + 1, max_visits |-> MaxOrders,
                              time_window |-> DefaultTimeWindow]]
  /\ route_shops = [r \in RouteIds |-> OrderShops]
  /\ geo_constraint = {}
  /\ request \in {r \in [caller : {"api", "sync"},
                          vehicle_route_mapping : {<<>>, <<1>>},
                          use_time_windows : {FALSE},
                          selected_vehicles : SUBSET (VehicleIds \cup {UnknownVehicle}),
                          selected_orders : SUBSET (OrderIds \cup {UnknownOrder})] :
                     r.caller = "api" => r.vehicle_route_mapping = <<>>}
  /\ jobs = <<>>
  /\ task = [pc |-> "idle"]
  /\ solves = <<>>
  /\ order_job_id = [o \in DOMAIN order_info |-> None]
  /\ other_task = [pc |-> "idle"]

ValSpec == ValInit /\ [][ONext]_vars

\* the geo constraints without vehicle between two locations
GeoRows ==
  {[start_shop_id |-> a, end_shop_id |-> b, vehicle_id |-> None] :
     <<a, b>> \in {p \in Locations \X Locations : p[1] # p[2]}}

\* runs over a table of geo constraints: every distance 1 km, order 1 for
\* shop 2, no group, no
\* visit limit below the number of orders, vehicle 1 with a short or a long
\* range, free or bound to the predefined route of all the shops
GeoInit ==
  /\ matrix_status = [s \in Locations |-> "updated"]
  /\ shop_matrix = FullMatrix(Scale)
  /\ pc = "idle"
  /\ pending_shop_ids = <<>>
  /\ pos = 1
  /\ calls = {}
  /\ last = [op |-> "init"]
  /\ updates = 0
  /\ run_ok = FALSE
  /\ settled = FALSE
  /\ failed = {}
  /\ coords = <<>>
  /\ it = NoIteration
  /\ order_info \in {f \in [OrderIds -> [shop_id : OrderShops, priority : Priorities,
                                         group : {{}},
                                         time_window_start : {NoTime},
                                         time_window_end : {NoTime}]] :
                       f[1].shop_id = 2}
  /\ order_status = [o \in OrderIds |-> "pending"]
  /\ vehicle_constraint \in
       {[v \in VehicleIds |-> [max_distance |-> IF v = 1 THEN d ELSE MaxOrders + 1,
                               max_visits |-> MaxOrders,
                               time_window |-> DefaultTimeWindow]] :
          d \in {1, MaxOrders + 1}}
  /\ route_shops = [r \in RouteIds |-> OrderShops]
  /\ geo_constraint \in {G \in SUBSET GeoRows : Cardinality(G) <= 1}
  /\ request \in {[caller |-> "api", vehicle_route_mapping |-> <<>>,
                   use_time_windows |-> FALSE,
                   selected_vehicles |-> VehicleIds, selected_orders |-> OrderIds],
                  [caller |-> "sync", vehicle_route_mapping |-> <<1>>,
                   use_time_windows |-> FALSE,
                   selected_vehicles |-> VehicleIds, selected_orders |-> OrderIds]}
  /\ jobs = <<>>
  /\ task = [pc |-> "idle"]
  /\ solves = <<>>
  /\ order_job_id = [o \in DOMAIN order_info |-> None]
  /\ other_task = [pc |-> "idle"]

GeoSpec == GeoInit /\ [][ONext]_vars

\* run_optimization_task lines 179-185: the step about to run raises (a
\* database error, an error of the solver); the handler takes the job of the
\* task, or without one the job named after the day of the request, sets it
\* FAILED and commits.  What earlier steps committed stays.
task_fails ==
  /\ task.pc \in {"queued", "solve", "save", "mark", "complete"}
  /\ LET job == IF task.job # None THEN task.job ELSE 1
     IN /\ jobs' = [jobs EXCEPT ![job].status = "failed"]
        /\ task' = [task EXCEPT !.pc = "failed", !.job = job]
  /\ UNCHANGED <<order_info, order_status, vehicle_constraint, route_shops,
                 geo_constraint, request, solves>>
  /\ UNCHANGED <<mvars, fvars, jvars, tvars>>

FailNext ==
  \/ run_optimization
  \/ run_optimization_task_begin
  \/ optimize_fixed
  \/ optimize_free
  \/ save_job
  \/ mark_orders_active
  \/ complete
  \/ task_fails

\* the runs of GeoSpec, any step of the task failing
FailSpec == GeoInit /\ [][FailNext]_vars

\* the order ids on the stops of a job
StopOrderIds(job) ==
  {st.order_id : st \in UNION {job.routes[i].stops : i \in DOMAIN job.routes}} \ {None}

\* the orders that delete_job and cancel_job reset: those whose job_id is the
\* job and those whose id is on a stop of the job
OrdersOfJob(j) ==
  {o \in DOMAIN order_status : order_job_id[o] = j \/ o \in StopOrderIds(jobs[j])}

\* job_curd.delete_job, once the task has ended: the orders of the job back to
\* PENDING with no job_id, the job deleted with its routes and stops
delete_job ==
  /\ task.pc = "done"
  /\ \E j \in DOMAIN jobs :
       /\ jobs[j].status # "deleted"
       /\ order_status' = [o \in DOMAIN order_status |->
            IF o \in OrdersOfJob(j) THEN "pending" ELSE order_status[o]]
       /\ order_job_id' = [o \in DOMAIN order_job_id |->
            IF o \in OrdersOfJob(j) THEN None ELSE order_job_id[o]]
       /\ jobs' = [jobs EXCEPT ![j] = [status |-> "deleted", routes |-> <<>>]]
       /\ last' = [op |-> "delete_job", job |-> j]
  /\ UNCHANGED <<order_info, vehicle_constraint, route_shops, geo_constraint,
                 request, task, solves>>
  /\ UNCHANGED <<matrix_status, shop_matrix, pc, pending_shop_ids, pos, calls,
                 updates, run_ok, settled, failed>>
  /\ UNCHANGED <<fvars, tvars>>

\* job_curd.cancel_job, once the task has ended: the orders of the job back to
\* PENDING with no job_id, the job kept with status FAILED
cancel_job ==
  /\ task.pc = "done"
  /\ \E j \in DOMAIN jobs :
       /\ jobs[j].status # "deleted"
       /\ order_status' = [o \in DOMAIN order_status |->
            IF o \in OrdersOfJob(j) THEN "pending" ELSE order_status[o]]
       /\ order_job_id' = [o \in DOMAIN order_job_id |->
            IF o \in OrdersOfJob(j) THEN None ELSE order_job_id[o]]
       /\ jobs' = [jobs EXCEPT ![j].status = "failed"]
       /\ last' = [op |-> "cancel_job", job |-> j]
  /\ UNCHANGED <<order_info, vehicle_constraint, route_shops, geo_constraint,
                 request, task, solves>>
  /\ UNCHANGED <<matrix_status, shop_matrix, pc, pending_shop_ids, pos, calls,
                 updates, run_ok, settled, failed>>
  /\ UNCHANGED <<fvars, tvars>>

JobNext ==
  \/ run_optimization
  \/ run_optimization_task_begin
  \/ optimize_fixed
  \/ optimize_free
  \/ save_job
  \/ mark_orders_active
  \/ complete
  \/ delete_job
  \/ cancel_job

\* the runs of GeoSpec, followed by the cancelling and the deleting of jobs
JobSpec == GeoInit /\ [][JobNext]_vars

\* a predefined route id no row has
UnknownRoute == 1 + Cardinality(RouteIds)

\* requests of the sync helper whose mapping binds any of the vehicles to the
\* predefined route or to a route that has no row
SplitInit ==
  /\ matrix_status = [s \in Locations |-> "updated"]
  /\ shop_matrix = FullMatrix(Scale)
  /\ pc = "idle"
  /\ pending_shop_ids = <<>>
  /\ pos = 1
  /\ calls = {}
  /\ last = [op |-> "init"]
  /\ updates = 0
  /\ run_ok = FALSE
  /\ settled = FALSE
  /\ failed = {}
  /\ coords = <<>>
  /\ it = NoIteration
  /\ order_info \in [OrderIds -> {[shop_id |-> sh, priority |-> "MEDIUM", group |-> {},
                                   time_window_start |-> NoTime,
                                   time_window_end |-> NoTime] : sh \in {2, 3}}]
  /\ order_status = [o \in OrderIds |-> "pending"]
  /\ vehicle_constraint = [v \in VehicleIds |->
                             [max_distance |-> MaxOrders + 1,
                              max_visits |-> MaxOrders,
                              time_window |-> DefaultTimeWindow]]
  /\ route_shops \in [RouteIds -> {{2}, {2, 3}}]
  /\ geo_constraint = {}
  /\ request \in {[caller |-> "sync", vehicle_route_mapping |-> m,
                   use_time_windows |-> FALSE,
                   selected_vehicles |-> {1, 2}, selected_orders |-> {1, 2}] :
                    m \in UNION {[D -> RouteIds \cup {UnknownRoute}] : D \in SUBSET {1, 2}}}
  /\ jobs = <<>>
  /\ task = [pc |-> "idle"]
  /\ solves = <<>>
  /\ order_job_id = [o \in DOMAIN order_info |-> None]
  /\ other_task = [pc |-> "idle"]

SplitSpec == SplitInit /\ [][ONext]_vars

\* the geo constraints between two locations that name a vehicle
ScopedRows ==
  {[start_shop_id |-> a, end_shop_id |-> b, vehicle_id |-> v] :
     <<a, b>> \in {p \in Locations \X Locations : p[1] # p[2]}, v \in VehicleIds}

\* the runs of GeoInit over a table that holds at most one geo constraint,
\* restricted to a vehicle
ScopedInit ==
  /\ matrix_status = [s \in Locations |-> "updated"]
  /\ shop_matrix = FullMatrix(Scale)
  /\ pc = "idle"
  /\ pending_shop_ids = <<>>
  /\ pos = 1
  /\ calls = {}
  /\ last = [op |-> "init"]
  /\ updates = 0
  /\ run_ok = FALSE
  /\ settled = FALSE
  /\ failed = {}
  /\ coords = <<>>
  /\ it = NoIteration
  /\ order_info \in {f \in [OrderIds -> [shop_id : OrderShops, priority : Priorities,
                                         group : {{}},
                                         time_window_start : {NoTime},
                                         time_window_end : {NoTime}]] :
                       f[1].shop_id = 2}
  /\ order_status = [o \in OrderIds |-> "pending"]
  /\ vehicle_constraint = [v \in VehicleIds |-> [max_distance |-> MaxOrders + 1,
                                                 max_visits |-> MaxOrders,
                                                 time_window |-> DefaultTimeWindow]]
  /\ route_shops = [r \in RouteIds |-> OrderShops]
  /\ geo_constraint \in {G \in SUBSET ScopedRows : Cardinality(G) <= 1}
  /\ request \in {[caller |-> "api", vehicle_route_mapping |-> <<>>,
                   use_time_windows |-> FALSE,
                   selected_vehicles |-> {1, 2}, selected_orders |-> {1, 2}],
                  [caller |-> "sync", vehicle_route_mapping |-> <<1>>,
                   use_time_windows |-> FALSE,
                   selected_vehicles |-> {1, 2}, selected_orders |-> {1, 2}]}
  /\ jobs = <<>>
  /\ task = [pc |-> "idle"]
  /\ solves = <<>>
  /\ order_job_id = [o \in DOMAIN order_info |-> None]
  /\ other_task = [pc |-> "idle"]

ScopedSpec == ScopedInit /\ [][ONext]_vars

\* the scheduler leaves the background task that was running and goes on
\* with the other one, or with the handler of a second request when none has
\* been made yet
switch_task ==
  /\ task.pc # "idle"
  /\ other_task.pc \notin {"done", "rejected"}
  /\ task' = other_task
  /\ other_task' = task
  /\ UNCHANGED <<order_info, order_status, vehicle_constraint, route_shops,
                 geo_constraint, request, jobs, solves>>
  /\ UNCHANGED <<mvars, fvars, jvars>>

\* two requests of the API for the same vehicles and the same orders, every
\* distance 1 km, no geo constraint, no group, no predefined route in use
TwoInit ==
  /\ matrix_status = [s \in Locations |-> "updated"]
  /\ shop_matrix = FullMatrix(Scale)
  /\ pc = "idle"
  /\ pending_shop_ids = <<>>
  /\ pos = 1
  /\ calls = {}
  /\ last = [op |-> "init"]
  /\ updates = 0
  /\ run_ok = FALSE
  /\ settled = FALSE
  /\ failed = {}
  /\ coords = <<>>
  /\ it = NoIteration
  /\ order_info \in [OrderIds -> [shop_id : OrderShops, priority : Priorities,
                                  group : {{}},
                                  time_window_start : {NoTime},
                                  time_window_end : {NoTime}]]
  /\ order_status = [o \in OrderIds |-> "pending"]
  /\ vehicle_constraint = [v \in VehicleIds |-> [max_distance |-> MaxOrders + 1,
                                                 max_visits |-> MaxOrders,
                                                 time_window |-> DefaultTimeWindow]]
  /\ route_shops = [r \in RouteIds |-> OrderShops]
  /\ geo_constraint = {}
  /\ request = [caller |-> "api", vehicle_route_mapping |-> <<>>,
                use_time_windows |-> FALSE,
                selected_vehicles |-> {1}, selected_orders |-> {1, 2}]
  /\ jobs = <<>>
  /\ task = [pc |-> "idle"]
  /\ solves = <<>>
  /\ order_job_id = [o \in DOMAIN order_info |-> None]
  /\ other_task = [pc |-> "idle"]

\* the steps of the two tasks; a request of the API carries no mapping, so
\* the loop over the fixed vehicles has no iteration
TwoNext ==
  \/ run_optimization
  \/ run_optimization_task_begin
  \/ optimize_free
  \/ save_job
  \/ mark_orders_active
  \/ complete
  \/ switch_task

TwoSpec == TwoInit /\ [][TwoNext]_vars

\* the windows of an order: none, two early ones a minute long, and 09:00 to
\* 10:00
Windows ==
  {<<NoTime, NoTime>>, <<Time(0, 0), Time(0, 1)>>, <<Time(0, 2), Time(0, 3)>>,
   <<Time(9, 0), Time(10, 0)>>}

\* runs with use_time_windows set: every leg one minute, orders with and
\* without a window, no group, no geo constraint, vehicle 1 free or bound to
\* the predefined route of all the shops
TimeInit ==
  /\ matrix_status = [s \in Locations |-> "updated"]
  /\ shop_matrix = FullMatrix(Scale)
  /\ pc = "idle"
  /\ pending_shop_ids = <<>>
  /\ pos = 1
  /\ calls = {}
  /\ last = [op |-> "init"]
  /\ updates = 0
  /\ run_ok = FALSE
  /\ settled = FALSE
  /\ failed = {}
  /\ coords = <<>>
  /\ it = NoIteration
  /\ order_info \in
       [OrderIds -> {[shop_id |-> sh, priority |-> pr, group |-> {},
                      time_window_start |-> w[1], time_window_end |-> w[2]] :
                       sh \in OrderShops, pr \in Priorities, w \in Windows}]
  /\ order_status = [o \in OrderIds |-> "pending"]
  /\ vehicle_constraint \in
       {[v \in VehicleIds |-> [max_distance |-> IF v = 1 THEN d ELSE MaxOrders + 1,
                               max_visits |-> MaxOrders,
                               time_window |-> DefaultTimeWindow]] :
          d \in {1, MaxOrders + 1}}
  /\ route_shops = [r \in RouteIds |-> OrderShops]
  /\ geo_constraint = {}
  /\ request \in {[caller |-> "api", vehicle_route_mapping |-> <<>>,
                   use_time_windows |-> TRUE,
                   selected_vehicles |-> VehicleIds, selected_orders |-> OrderIds],
                  [caller |-> "sync", vehicle_route_mapping |-> <<1>>,
                   use_time_windows |-> TRUE,
                   selected_vehicles |-> VehicleIds, selected_orders |-> OrderIds]}
  /\ jobs = <<>>
  /\ task = [pc |-> "idle"]
  /\ solves = <<>>
  /\ order_job_id = [o \in DOMAIN order_info |-> None]
  /\ other_task = [pc |-> "idle"]

TimeSpec == TimeInit /\ [][ONext]_vars

\* ================================================== the cache: properties
PendingStatus == {"to_update", "to_create"}

\* C4 (single storage): whatever refresh runs and writes happened, a pair
\* computed from each endpoint included, the table holds at most one row per
\* unordered pair of ids, with the smaller id in shop_id_1 and never a == b.
C4_SingleStorage ==
  /\ \A r \in BagToSet(shop_matrix) : r.shop_id_1 < r.shop_id_2
  /\ \A a, b \in Shops : CopiesOfPair(shop_matrix, a, b) <= 1

\* a pair was sent to the provider from each endpoint in one refresh run, and
\* its row is there
C4_Witness ==
  \E a, b \in Shops :
    /\ a < b
    /\ <<a, b>> \in calls
    /\ <<b, a>> \in calls
    /\ CopiesOfPair(shop_matrix, a, b) = 1

\* C5 (symmetry): in every reachable table, get_distance(a, b) and
\* get_distance(b, a) return the same pair of values, or both not-found.
C5_Symmetry ==
  \A a, b \in Shops :
    get_distance(shop_matrix, a, b) = get_distance(shop_matrix, b, a)

\* a client asked for a stored pair with the larger id first and got the row
C5_Witness ==
  /\ last.op = "get"
  /\ last.shop_id_1 > last.shop_id_2
  /\ last.result # NotFound

ProviderFailed(t) ==
  /\ last.op = "shop"
  /\ last.fault = "none"
  /\ t \in DOMAIN last.out
  /\ last.out[t].kind # "ok"

\* C7, first part: the failed call stores nothing for its pair
C7_NothingStored ==
  \A t \in Shops : ProviderFailed(t) =>
    get_distance(shop_matrix, last.shop_id, t) = get_distance(last.before, last.shop_id, t)

\* C7, second part: the pairs of the batch whose call succeeded are stored
C7_OthersStored ==
  \A t \in Shops : ProviderFailed(t) =>
    \A u \in DOMAIN last.out : last.out[u].kind = "ok" =>
      get_distance(shop_matrix, last.shop_id, u) =
        <<last.out[u].distance_km, last.out[u].time_minutes>>

\* C7, third part: the pair is attempted again by the next refresh, which
\* computes the pairs of the shops that are pending and no others
C7_Retried ==
  \A t \in Shops : ProviderFailed(t) =>
    \/ matrix_status[last.shop_id] \in PendingStatus
    \/ matrix_status[t] \in PendingStatus

\* C7 (provider failure): when the provider fails for a pair during a refresh,
\* nothing is stored for that pair, the other pairs of the batch are stored,
\* and the pair is attempted again by the next refresh.
C7_ProviderFailure == C7_NothingStored /\ C7_OthersStored /\ C7_Retried

RefreshOfNothing ==
  /\ pc = "idle"
  /\ PendingShops = {}
  /\ last'.op \in {"refresh_none", "refresh_begin"}

\* C9 (no-op, idempotence): with nothing pending, process_pending_updates
\* makes no provider call and changes no row and no status; after a refresh
\* without failure and without intervening change nothing is pending, so the
\* refresh that follows is that no-op.
C9_Idempotent ==
  /\ [](settled => PendingShops = {})
  /\ [][RefreshOfNothing =>
          /\ calls' = {}
          /\ shop_matrix' = shop_matrix
          /\ matrix_status' = matrix_status
          /\ pc' = "idle"]_vars

\* the second of two refreshes in succession, the first one having stored rows
C9_Witness ==
  /\ settled
  /\ last.op = "refresh_none"
  /\ shop_matrix # EmptyBag

\* ============================================== the optimiser: properties
\* the task has its merged result (all solves done)
Solved == task.pc \in {"save", "mark", "complete", "done"}

\* the routes of the merged result in which order o is a stop
RoutesOf(o) == {i \in DOMAIN MergedResult : o \in Range(MergedResult[i].visits)}

VehiclesOf(o) == {MergedResult[i].vehicle : i \in RoutesOf(o)}

\* C1 (group cohesion): in the merged result of a run, the served orders of
\* every retained group (two distinct shops or more) are all on one vehicle.
C1_GroupCohesion ==
  Solved =>
    \A g \in DOMAIN task.order_groups :
      \A o1, o2 \in {o \in Range(task.orders) : g \in order_info[o].group} :
        (RoutesOf(o1) # {} /\ RoutesOf(o2) # {}) => VehiclesOf(o1) = VehiclesOf(o2)

\* C2 (mandatory inclusion): a run that ends with its job COMPLETED has every
\* HIGH priority order of the run as a stop of exactly one route.
C2_MandatoryInclusion ==
  (task.pc = "done" /\ jobs[task.job].status = "completed") =>
    \A o \in Range(task.orders) :
      order_info[o].priority = "HIGH" => Cardinality(RoutesOf(o)) = 1

\* C3 (infeasibility propagated): a run in which a call of the solver
\* returned no solution ends with its job FAILED.
C3_InfeasibilityPropagated ==
  (task.pc = "done" /\ \E i \in DOMAIN solves : ~solves[i].solution) =>
    jobs[task.job].status = "failed"

\* the distance in the cache along the stops of a route, return leg included
RouteDistance(r) ==
  PathSum(get_distance_matrix_as_array(shop_matrix, SortedSeq(Locations)), r.path.nodes)

C10_Distance ==
  Solved =>
    \A i \in DOMAIN MergedResult :
      RouteDistance(MergedResult[i]) <=
        vehicle_constraint[MergedResult[i].vehicle].max_distance * Scale

C10_Visits ==
  Solved =>
    \A i \in DOMAIN MergedResult :
      Len(MergedResult[i].visits) <= vehicle_constraint[MergedResult[i].vehicle].max_visits

\* C10 (capacity): every route of a solution travels, return to the depot
\* included, at most the max_distance of its vehicle, and has at most the
\* max_visits of its vehicle as stops.
C10_CapacityRespected == C10_Distance /\ C10_Visits

\* C11 (no double service): in the merged result of a run every order is a
\* stop of the route of at most one vehicle; what a fixed vehicle was given is
\* offered to no later call of the solver.
C11_NoDoubleService ==
  Solved => \A o \in Range(task.orders) : Cardinality(RoutesOf(o)) <= 1

\* C16 (routes only for vehicles that serve): every route of the merged result
\* has at least one stop that is not the depot.
C16_NoIdleRoute ==
  Solved => \A i \in DOMAIN MergedResult : MergedResult[i].visits # <<>>

\* the arcs of a route: its pairs of consecutive shop ids
Arcs(nodes) == {<<nodes[i], nodes[i + 1]>> : i \in 1..(Len(nodes) - 1)}

\* C12 (forbidden edge, all vehicles): with a geo constraint without vehicle
\* between a and b, and every max_distance below 999999, no route of the
\* merged result goes from a to b or from b to a.
C12_ForbiddenEdge ==
  Solved =>
    \A gc \in geo_constraint : gc.vehicle_id = None =>
      \A i \in DOMAIN MergedResult :
        /\ <<gc.start_shop_id, gc.end_shop_id>> \notin Arcs(MergedResult[i].path.nodes)
        /\ <<gc.end_shop_id, gc.start_shop_id>> \notin Arcs(MergedResult[i].path.nodes)

\* a run served the two shops of a geo constraint, stored with the larger id
\* first
C12_Witness ==
  /\ task.pc = "done"
  /\ \E gc \in geo_constraint :
       /\ gc.vehicle_id = None
       /\ gc.start_shop_id > gc.end_shop_id
       /\ gc.end_shop_id # Depot
       /\ \A x \in {gc.start_shop_id, gc.end_shop_id} :
            \E i \in DOMAIN MergedResult :
              \E k \in DOMAIN MergedResult[i].visits :
                order_info[MergedResult[i].visits[k]].shop_id = x

\* the window of order o in minutes since midnight, when it has one
HasWindow(o) ==
  /\ order_info[o].time_window_start # NoTime
  /\ order_info[o].time_window_end # NoTime

\* C13, first part: in a run with use_time_windows, every served order that
\* has a window is reached inside its own window.
C13_ArrivalInWindow ==
  (Solved /\ request.use_time_windows) =>
    \A i \in DOMAIN MergedResult :
      \A k \in DOMAIN MergedResult[i].visits :
        LET o == MergedResult[i].visits[k]
        IN HasWindow(o) =>
             /\ _to_minutes(order_info[o].time_window_start)
                  <= MergedResult[i].path.arrival_times[k + 1]
             /\ MergedResult[i].path.arrival_times[k + 1]
                  <= _to_minutes(order_info[o].time_window_end)

\* C13, second part: a call of the solver whose orders are all MEDIUM, hence
\* all droppable, returns a solution whatever their windows are.
C13_Dropped ==
  (Solved /\ request.use_time_windows) =>
    \A i \in DOMAIN solves :
      (\A o \in Range(solves[i].orders) : order_info[o].priority = "MEDIUM")
        => solves[i].solution

\* C13 (time windows): the served orders are reached inside their own windows,
\* and an order that is not mandatory and whose window cannot be met is
\* dropped without failing the call of the solver.
C13_TimeWindows == C13_ArrivalInWindow /\ C13_Dropped

\* the job of the task holds its routes
Saved == task.pc \in {"mark", "complete", "done"}

\* C14 (well-formed sequences): every route of the merged result starts at
\* the depot and ends at the depot, and the stops saved for it are numbered
\* 0, 1, ..., k-1 in the order of the visit, no number missing or repeated.
C14_WellFormed ==
  /\ Solved =>
       \A i \in DOMAIN MergedResult :
         LET nodes == MergedResult[i].path.nodes
         IN /\ Len(nodes) >= 2
            /\ nodes[1] = Depot
            /\ nodes[Len(nodes)] = Depot
  /\ Saved =>
       /\ DOMAIN jobs[task.job].routes = DOMAIN MergedResult
       /\ \A i \in DOMAIN MergedResult :
            LET nodes == MergedResult[i].path.nodes
                stops == jobs[task.job].routes[i].stops
            IN /\ Cardinality(stops) = Len(nodes)
               /\ {st.sequence : st \in stops} = 0..(Len(nodes) - 1)
               /\ \A st \in stops : st.shop_id = nodes[st.sequence + 1]

\* a job is completed with a route of two orders saved: four stops
C14_Witness ==
  /\ task.pc = "done"
  /\ jobs[task.job].status = "completed"
  /\ \E i \in DOMAIN jobs[task.job].routes :
       Cardinality(jobs[task.job].routes[i].stops) = 4

\* the ids a request names that no row has, and the completed orders it names
BadVehicles == request.selected_vehicles \ VehicleIds
BadOrders ==
  {o \in request.selected_orders :
     o \notin OrderIds \/ order_status[o] = "completed"}

\* the ids the detail of an answer names: each detail is one fixed text
IdsNamed(detail) == {}

\* C15, first part: a request naming an unknown vehicle id, an unknown order
\* id or a completed order is turned away: no job is created for it and the
\* solver is never called for it.
C15_Rejected ==
  (BadVehicles # {} \/ BadOrders # {}) =>
     /\ task.pc \in {"idle", "rejected"}
     /\ jobs = <<>>
     /\ solves = <<>>

\* C15, second part: the answer to such a request names an offending id.
C15_Identified ==
  (task.pc = "rejected" /\ (BadVehicles # {} \/ BadOrders # {})) =>
     IdsNamed(task.detail) \cap (BadVehicles \cup BadOrders) # {}

\* C15, third part: every vehicle and every order the solver is called with
\* has a row, and no such order is completed.
C15_SolverInputs ==
  \A i \in DOMAIN solves :
    /\ Range(solves[i].vehicles) \subseteq VehicleIds
    /\ \A o \in Range(solves[i].orders) :
         o \in OrderIds /\ order_status[o] # "completed"

\* C15 (input validation before solving): a request naming an unknown
\* vehicle id, an unknown order id or a completed order is turned away with an
\* answer naming the offending id, before a job is created and before the
\* solver is called; the solver only gets vehicles and orders that exist and
\* are not completed.
C15_InputValidation == C15_Rejected /\ C15_Identified /\ C15_SolverInputs

\* the value cached for the unordered pair {a, b}: the rows stored under
\* (smaller id, larger id)
CachedRows(a, b) == RowsFor(shop_matrix, Min(a, b), Max(a, b))

\* C17 (matrix assembly): for a list of n location ids the distance array
\* and the time array are n x n, 0 on the diagonal, cell [i][j] the cached
\* value of the unordered pair (ids[i], ids[j]) when the cache holds one and
\* 0 when it holds none, and so symmetric.
C17_MatrixAssembly ==
  (last.op \in {"distance_matrix", "time_matrix"}) =>
     LET ids == last.shop_ids
         m == last.matrix
         n == Len(ids)
         Value(r) == IF last.op = "distance_matrix"
                     THEN r.distance_km ELSE r.time_minutes
     IN /\ DOMAIN m = 1..n
        /\ \A i \in 1..n :
             /\ DOMAIN m[i] = 1..n
             /\ m[i][i] = 0
             /\ \A j \in 1..n :
                  /\ m[i][j] = m[j][i]
                  /\ ids[i] # ids[j] =>
                       IF CachedRows(ids[i], ids[j]) = {}
                       THEN m[i][j] = 0
                       ELSE \E r \in CachedRows(ids[i], ids[j]) : m[i][j] = Value(r)

\* a time array for three different locations, given with the larger id
\* first, one pair of them cached and one not
C17_Witness ==
  /\ last.op = "time_matrix"
  /\ Len(last.shop_ids) = 3
  /\ Cardinality(Range(last.shop_ids)) = 3
  /\ last.shop_ids[1] > last.shop_ids[2]
  /\ CachedRows(last.shop_ids[1], last.shop_ids[2]) # {}
  /\ CachedRows(last.shop_ids[1], last.shop_ids[3]) = {}
  /\ last.matrix[1][2] > 0
  /\ last.matrix[1][3] = 0

\* C19 (no duplicate work within a pending batch): within one refresh run
\* each unordered pair of locations is sent to the provider at most once: a
\* pair of two pending locations computed with the smaller id as the source is
\* not computed again when the larger id becomes the source.
C19_NoDuplicateWork ==
  \A a, b \in Shops : ~(<<a, b>> \in calls /\ <<b, a>> \in calls)

\* C18 as stated: the writes of a source are made by the calling thread in a
\* single pass, after every worker task submitted for that source has
\* completed, so that no write is concurrent with a task in flight.
C18_SinglePass ==
  /\ ~it.raced
  /\ it.passes <= 1
  /\ it.inflight # {} => it.sess = EmptySession

\* C18 (write after the barrier, single writer): worker tasks only call the
\* provider and return results; the calling thread writes the results of a
\* pool in the save loop that follows the pool, after every task of that pool
\* has completed, so no write is concurrent with a task in flight; a source
\* has two pools at most (the 'updated' shops, then the later pending shops),
\* so its writes are made in two passes at most, followed by one commit.
C18_WriteAfterBarrier ==
  /\ ~it.raced
  /\ it.phase = "batch1" => (it.passes = 0 /\ it.sess = EmptySession)
  /\ it.phase = "batch2" => it.passes <= 1
  /\ it.passes <= 2
  /\ it.phase \in {"none", "commit"} => (it.inflight = {} /\ it.results = <<>>)
  /\ last.op = "commit" => last.passes <= 2

\* an iteration about to commit what it wrote in two passes, one after the
\* pool of the 'updated' shops and one after the pool of the pending shops
C18_Witness ==
  /\ it.phase = "commit"
  /\ it.passes = 2
  /\ BagCardinality(it.sess.adds) + Cardinality(it.sess.upds) >= 2

\* an iteration whose pool of two tasks has one task done and one in flight
C18_TwoTasks ==
  /\ it.phase = "batch1"
  /\ Cardinality(it.inflight) = 1
  /\ Len(it.results) = 1

\* the row was computed from the coordinates its two shops have now
Fresh(r) ==
  /\ r.distance_km = Osrm(coords[r.shop_id_1], coords[r.shop_id_2]).distance_km
  /\ r.time_minutes = Osrm(coords[r.shop_id_1], coords[r.shop_id_2]).time_minutes

\* C20, first part: a shop whose coordinates changed is not left marked
\* 'updated' with entries computed from its old coordinates: every row
\* between two 'updated' shops was computed from their present coordinates.
C20_NoStaleUpdated ==
  \A r \in BagToSet(shop_matrix) :
    (matrix_status[r.shop_id_1] = "updated" /\ matrix_status[r.shop_id_2] = "updated")
       => Fresh(r)

\* C20, second part: once a refresh has run to its end and nothing is left
\* pending, every row was computed from the present coordinates.
C20_AfterRefresh ==
  (pc = "idle" /\ last.op \in {"commit", "refresh_none"} /\ PendingShops = {}) =>
     \A r \in BagToSet(shop_matrix) : Fresh(r)

\* C20 (coordinate changes always invalidate): whenever the coordinates of a
\* location change, also while a refresh that is processing the location is in
\* flight, the location is not left marked 'updated' with entries computed
\* from its old coordinates, and after the next refresh that completes every
\* entry touching it was computed from the new coordinates.
C20_Invalidate == C20_NoStaleUpdated /\ C20_AfterRefresh

\* the 'updated' shops
UpdatedShops == {s \in DOMAIN matrix_status : matrix_status[s] = "updated"}

\* every pair of 'updated' shops has its row
Complete ==
  \A a, b \in UpdatedShops : a < b => RowsFor(shop_matrix, a, b) # {}

\* C21, first part: whenever a refresh run has finished, every 'updated'
\* location has a stored entry with every other 'updated' location.
C21_CompleteAfterRefresh ==
  (pc = "idle" /\ last.op \in {"shop", "refresh_none"}) => Complete

\* C21, second part: a location is never marked 'updated' while one of its
\* pairs with an 'updated' location is missing.
C21_NeverIncomplete == Complete

\* C21 (matrix completeness for updated locations): after a refresh run every
\* 'updated' location has an entry with every other 'updated' location (the
\* count is n*(n-1)/2 over the 'updated' locations), and no location is marked
\* 'updated' while such a pair is missing.
C21_Completeness == C21_CompleteAfterRefresh /\ C21_NeverIncomplete

\* an order of the solve has a window
SomeWindow(orders) == \E o \in Range(orders) : HasWindow(o)

C22_FlagOff ==
  /\ ~request.use_time_windows
  /\ \E i \in DOMAIN solves :
       SomeWindow(solves[i].orders) /\ ~solves[i].use_time_matrix

\* the penalty of a priority
PenaltyOf(priority) ==
  IF priority = "HIGH" THEN 100000 ELSE IF priority = "LOW" THEN 500 ELSE 5000

\* C23, first part: node 0 (the depot) has penalty 0 and every other node has
\* the penalty of the priority of its own order, also when several orders of
\* the solve share a shop id.
C23_OwnPenalty ==
  \A i \in DOMAIN solves :
    /\ solves[i].penalties[1] = 0
    /\ \A k \in DOMAIN solves[i].orders :
         solves[i].penalties[k + 1] = PenaltyOf(order_info[solves[i].orders[k]].priority)

\* C23, second part: a node has a skip disjunction if and only if its penalty
\* is below 10000, so exactly the nodes of the high-priority orders are
\* mandatory.
C23_Mandatory ==
  \A i \in DOMAIN solves :
    \A k \in DOMAIN solves[i].orders :
      (solves[i].penalties[k + 1] >= 10000)
         <=> (order_info[solves[i].orders[k]].priority = "HIGH")

\* C23 (penalty and skippability per node)
C23_Penalties == C23_OwnPenalty /\ C23_Mandatory

\* the shop ids that are a stop of a produced route
StopShops == UNION {Range(MergedResult[i].path.nodes) : i \in DOMAIN MergedResult}

\* C24 (orders are marked only when actually routed): after a successful run
\* an order has left pending only if its shop is a stop of one of the produced
\* routes; an order the solver skipped, on a fixed or on a free vehicle, or
\* whose fixed-vehicle solve produced no route, stays pending.
C24_MarkedOnlyIfRouted ==
  (task.pc \in {"complete", "done"}) =>
     \A o \in DOMAIN order_status :
       order_status[o] # "pending" => order_info[o].shop_id \in StopShops

\* C25, first part: a job is running from its creation until solving has
\* ended, and is not seen planned or completed before its routes are saved.
C25_RunningUntilSolved ==
  (task.pc \in {"queued", "solve", "save"}) =>
     \A j \in DOMAIN jobs : jobs[j].status = "running"

\* C25, second part: once the task has ended no job is left running, and the
\* job of the request has moved to planned, completed or failed.
C25_NotLeftRunning ==
  (task.pc = "done") =>
     \A j \in DOMAIN jobs : jobs[j].status \in {"planned", "completed", "failed"}

\* C25 (job status lifecycle): running from creation until solving has ended,
\* then once to planned, completed or failed; never planned or completed
\* before its routes are saved; not left running when the task has ended.
C25_Lifecycle == C25_RunningUntilSolved /\ C25_NotLeftRunning

\* C26 (atomic job outcome): a job whose run ends in status failed owns no
\* route and no stop and none of the orders of the run has changed status,
\* whatever step failed; routes, stops and order statuses become persistent
\* only together with the success status.
C26_AtomicOutcome ==
  \A j \in DOMAIN jobs :
    jobs[j].status = "failed" =>
       /\ jobs[j].routes = <<>>
       /\ \A o \in DOMAIN order_status : order_status[o] = "pending"

\* C27 (orders revert on cancel and delete): after cancel_job(J) or
\* delete_job(J) every order that the run of job J had moved out of pending
\* is pending again with no job_id.  Every order is pending before the run and
\* J is the job of the run.
C27_Revert ==
  (last.op \in {"delete_job", "cancel_job"} /\ last.job = task.job) =>
     \A o \in DOMAIN order_status :
       order_status[o] = "pending" /\ order_job_id[o] = None

\* the split of the vehicles has been made
SplitDone == task.pc \in {"solve", "save", "mark", "complete", "done"}

\* the vehicles the mapping of the request binds to a predefined route that
\* exists
Bound ==
  {v \in Range(task.vehicles) :
     \E r \in RouteIds : <<v, r>> \in
        {<<w, request.vehicle_route_mapping[w]>> : w \in DOMAIN request.vehicle_route_mapping}}

FixedIds == {task.fixed_vehicles[i][1] : i \in DOMAIN task.fixed_vehicles}

\* C29 (vehicle partition): every selected vehicle is in exactly one of fixed
\* and free; it is fixed if and only if the mapping binds it to a predefined
\* route that exists, so a vehicle bound to a missing route or to none is
\* free; each fixed vehicle is solved alone, with exactly the orders of the
\* run whose shop id is in its predefined route.
C29_VehiclePartition ==
  SplitDone =>
    /\ FixedIds \cup Range(task.free_vehicles) = Range(task.vehicles)
    /\ FixedIds \cap Range(task.free_vehicles) = {}
    /\ Len(task.fixed_vehicles) + Len(task.free_vehicles) = Len(task.vehicles)
    /\ FixedIds = Bound
    /\ \A i \in DOMAIN task.fixed_vehicles :
         task.fixed_vehicles[i][2] = request.vehicle_route_mapping[task.fixed_vehicles[i][1]]
    /\ \A k \in DOMAIN solves :
         \/ /\ k <= Len(task.fixed_vehicles)
            /\ \E i \in DOMAIN task.fixed_vehicles :
                 /\ solves[k].vehicles = <<task.fixed_vehicles[i][1]>>
                 /\ solves[k].orders =
                      SelectSeq(task.orders, LAMBDA o :
                        order_info[o].shop_id \in route_shops[task.fixed_vehicles[i][2]])
         \/ /\ solves[k].vehicles = task.free_vehicles
            /\ Range(solves[k].vehicles) \cap FixedIds = {}

\* a run that ended with one vehicle bound to the predefined route and solved
\* alone, and the other bound to a route that has no row and free
C29_Witness ==
  /\ task.pc = "done"
  /\ Len(task.fixed_vehicles) = 1
  /\ \E v \in Range(task.free_vehicles) :
       /\ v \in DOMAIN request.vehicle_route_mapping
       /\ request.vehicle_route_mapping[v] = UnknownRoute
  /\ Len(solves) = 2
  /\ Len(solves[1].vehicles) = 1

\* the saved route rt goes, in either direction, along the edge of the geo
\* constraint gc
UsesEdge(rt, gc) ==
  \E s1, s2 \in rt.stops :
    /\ s2.sequence = s1.sequence + 1
    /\ {s1.shop_id, s2.shop_id} = {gc.start_shop_id, gc.end_shop_id}

\* C30 (vehicle-scoped forbidden edge): an edge that matches a geo constraint
\* scoped to vehicle V costs the sentinel when evaluated for V, so no saved
\* route of V goes along it; the other vehicles use it at its plain cost.
C30_ScopedEdgeAvoided ==
  \A j \in DOMAIN jobs : \A i \in DOMAIN jobs[j].routes :
    \A gc \in geo_constraint :
      gc.vehicle_id = jobs[j].routes[i].vehicle_id => ~UsesEdge(jobs[j].routes[i], gc)

\* the routes of task t are saved under its job
RoutesSaved(t) == t.pc \in {"mark", "complete", "done"}

\* the orders served at the stops of the routes of task t
Planned(t) ==
  UNION {Range(r.visits) :
           r \in Range(t.predefined_optimized_routes \o t.free_optimized_routes)}

\* C28 (no double planning under concurrent runs): when two requests whose
\* selected orders overlap are accepted and their tasks run in any
\* interleaving, no order is served at a stop of the routes of both jobs.
C28_NoDoublePlanning ==
  (RoutesSaved(task) /\ RoutesSaved(other_task)) => Planned(task) \cap Planned(other_task) = {}

\* a second request is turned away once the first task has marked its orders
C28_SecondRejected ==
  /\ task.pc = "rejected"
  /\ other_task.pc \in {"complete", "done"}

====
